---- MODULE Spec2Model ----
(***************************************************************************)
(* Verification model of the NYC congestion-pricing audit pipeline:        *)
(* the anomaly classifier (src/src/ghost_trip_filter.py), the geospatial   *)
(* classifier (src/src/geo_mapping.py), the compliance and fleet analytics *)
(* engine (src/src/fleet_analytics.py) and the orchestrator's phases       *)
(* (src/audit_pipeline.py).                                                *)
(*                                                                         *)
(* Units: timestamps and durations are whole seconds, trip_distance is in  *)
(* hundredths of a mile, money is in whole dollars.  A SQL NULL is the     *)
(* empty tuple and a non-null value v is the one-tuple <<v>>; SQL          *)
(* predicates are three-valued (NULL, <<TRUE>>, <<FALSE>>).                *)
(***************************************************************************)
EXTENDS Integers, Sequences, FiniteSets

VARIABLES
    source_rows,     \* audit_and_filter_trips: rows of the canonical partition read
    clean_file,      \* audit_and_filter_trips: the purified file (Absent or its rows)
    outlier_file,    \* audit_and_filter_trips: the anomaly-trace file (Absent or its rows)
    audit_staging_table,  \* audit_and_filter_trips: the TEMP TABLE of step 1
    audit_results_map,    \* audit_and_filter_trips: the returned metrics ({} on failure)
    audit_pc,        \* "ready" before the call, "done" after it returned, "failed" after its except
    cbd_zone_identifiers,  \* execute_spatial_trip_categorization: its argument
    refined_trips,         \* the rows of CONSOLIDATED_DATA_DIR/*clean*.parquet (Absent: no such file)
    spatial_audit_staging, \* execute_spatial_trip_categorization: the TEMP TABLE
    zone_datamart,         \* trips_by_zone_category.parquet (Absent or its rows)
    geo_pc,                \* "ready", then "done" (returned) or "suspended" (early return)
    compliance_summary,    \* forensic_compliance_summary.parquet (Absent or its rows)
    audit_metrics,         \* conduct_operational_compliance_audit: the returned dict ({} on failure)
    compliance_pc,         \* "ready", then "done" (returned metrics), "blocked" or "failed"
    unified_dir,           \* names of the files in CONSOLIDATED_DATA_DIR
    ghost_dir,             \* names of the files in OUTLIER_TRIPS_DIR
    datamart_dir,          \* names of the files in DATAMART_DIR
    zone_manifest,         \* taxi_zones.shp: Absent or File(polygons)
    refinery_report,       \* process_refinery_batch: aggregate_reports of the last run
    phase3_result,         \* execute_phase_3_data_refinery: "none", "true" or "false"
    audit_outcome,         \* the last batch: (partition, outcome) for each audit_and_filter_trips call
    refinery_written,      \* the files the last batch wrote, purified and trace
    phase4_result,         \* execute_phase_4_si_imputation: "none" or "true"
    phase5_result,         \* execute_phase_5_geospatial_forensics: "none", "true" or "false"
    phase5_calls,          \* geo_mapping functions called by the last phase 5, in order
    phase5_cbd,            \* the Policy Zone Set the last phase 5 derived
    phase5_read,           \* the partitions the last categorization read
    phase5_written,        \* the DATAMART_DIR files the last phase 5 wrote
    purified_dir,          \* the files of data/processed/purified: records [name, rows]
    baseline_stats,        \* evaluate_inter_fleet_dynamics: fetchall() of the Q1 2024 query
    horizon_stats,         \* evaluate_inter_fleet_dynamics: fetchall() of the Q1 2025 query
    fleet_dynamics,        \* its return value: <<>> for {}, <<rows>> for {'dynamics_data': rows}
    behavioral_matrix,     \* fleet_behavioral_dynamics.parquet (Absent or its rows)
    fleet_pc,              \* "ready", then "done" (returned the report) or "failed"
    source_fragment,       \* synchronize_partition_schema: rows of the raw partition read
    source_map,            \* synchronize_partition_schema: the legacy map, in insertion order
    destination_fragment,  \* synchronize_partition_schema: the canonical partition (Absent or rows)
    sync_pc,               \* "ready", then "done" (returned True) or "failed" (returned False)
    raw_yellow_dir,        \* names of the files in VINTAGE_YELLOW_DIR
    raw_green_dir,         \* names of the files in TRADITIONAL_GREEN_DIR
    alignment_telemetry,   \* orchestrate_fleet_schema_alignment: <<>> before a run, then <<its dict>>
    align_attempted,       \* the (fleet, raw name) pairs the last run passed to the synchronization
    align_failed,          \* those of them whose synchronization returned False
    prior_telemetry,       \* the dict of the run before the last one, <<>> when there is none
    warehouse,             \* imputation: CONSOLIDATED_DATA_DIR, file name -> Absent or File(rows)
    recovery_telemetry,    \* run_comprehensive_data_recovery: <<>> before a run, then <<its dict>>
    args_phase,            \* main: args.phase, 0 when the option is not given
    skip_ingestion,        \* main: args.skip_harvest
    orch_pc,               \* "main", "targeted", "orchestrating", "running", "exited" ("idle")
    phase_success_matrix,  \* the values of the dict, in the order of insertion
    running_phase,         \* the position in PhaseKeys of the phase being executed, 0 if none
    phases_started,        \* the positions of the phases the orchestration has called, in order
    all_finalized,         \* what the orchestration returned: Null before it returns
    exit_code,             \* sys.exit's argument: Null before the exit
    stage_call,            \* the analytical stage called last on the directories, "none" before
    stage_returned,        \* "nothing" for a stage without a result, "empty" for {}, "metrics"
    stage_written,         \* the artifacts that call wrote into DATAMART_DIR
    observed_columns,      \* validate_structural_integrity: the columns DESCRIBE reports, Absent for an unreadable artifact
    structural_verdict     \* validate_structural_integrity: "none" before the call, then "true" or "false"

auditVars == <<source_rows, clean_file, outlier_file, audit_staging_table,
               audit_results_map, audit_pc>>
geoVars == <<cbd_zone_identifiers, refined_trips, spatial_audit_staging,
             zone_datamart, geo_pc>>
complianceVars == <<compliance_summary, audit_metrics, compliance_pc>>
dirVars == <<unified_dir, ghost_dir, datamart_dir, zone_manifest>>
phaseVars == <<refinery_report, phase3_result, audit_outcome,
               refinery_written, phase4_result, phase5_result, phase5_calls,
               phase5_cbd, phase5_read, phase5_written>>
pipeVars == <<dirVars, phaseVars>>
fleetVars == <<purified_dir, baseline_stats, horizon_stats, fleet_dynamics,
               behavioral_matrix, fleet_pc>>
syncVars == <<source_fragment, source_map, destination_fragment, sync_pc>>
alignVars == <<raw_yellow_dir, raw_green_dir, alignment_telemetry, align_attempted,
               align_failed, prior_telemetry>>
imputeVars == <<warehouse, recovery_telemetry>>
orchVars == <<args_phase, skip_ingestion, orch_pc, phase_success_matrix, running_phase,
              phases_started, all_finalized, exit_code>>
stageVars == <<stage_call, stage_returned, stage_written>>
validateVars == <<observed_columns, structural_verdict>>
notValidate == <<auditVars, geoVars, complianceVars, pipeVars, fleetVars, syncVars,
                 alignVars, imputeVars, orchVars, stageVars>>
vars == <<auditVars, geoVars, complianceVars, pipeVars, fleetVars, syncVars, alignVars,
          imputeVars, orchVars, stageVars,
    validateVars>>
\* what each component leaves alone
notAudit == <<geoVars, complianceVars, pipeVars, fleetVars, syncVars, alignVars, imputeVars,
    orchVars, stageVars,
    validateVars>>
notGeo == <<auditVars, complianceVars, pipeVars, fleetVars, syncVars, alignVars, imputeVars,
    orchVars, stageVars,
    validateVars>>
notPipe == <<auditVars, geoVars, complianceVars, fleetVars, syncVars, alignVars, imputeVars,
    orchVars, stageVars,
    validateVars>>
notCompliance == <<auditVars, pipeVars, fleetVars, syncVars, alignVars, imputeVars, orchVars,
                   stageVars,
                   cbd_zone_identifiers,
                   refined_trips, spatial_audit_staging, geo_pc,
    validateVars>>
notFleet == <<auditVars, geoVars, complianceVars, pipeVars, syncVars, alignVars, imputeVars,
    orchVars, stageVars,
    validateVars>>
notAlign == <<auditVars, geoVars, complianceVars, fleetVars, syncVars, imputeVars,
    orchVars, stageVars,
    validateVars>>
notImpute == <<auditVars, geoVars, complianceVars, pipeVars, fleetVars, syncVars, alignVars,
    orchVars, stageVars,
    validateVars>>
notOrch == <<auditVars, geoVars, complianceVars, pipeVars, fleetVars, syncVars, alignVars,
             imputeVars, stageVars,
    validateVars>>
notStage == <<auditVars, geoVars, complianceVars, fleetVars, syncVars, alignVars, imputeVars,
              orchVars,
    validateVars>>
notSync == <<auditVars, geoVars, complianceVars, pipeVars, fleetVars, alignVars, imputeVars,
    orchVars, stageVars,
    validateVars>>

\* ------------------------------------------------------------------------
\* SQL values
\* ------------------------------------------------------------------------
Null == <<>>
Some(v) == <<v>>
Val(x) == x[1]
IsTrue(p) == p = Some(TRUE)

SqlGt(a, b) == IF a = Null \/ b = Null THEN Null ELSE Some(Val(a) > Val(b))
SqlLt(a, b) == IF a = Null \/ b = Null THEN Null ELSE Some(Val(a) < Val(b))
SqlLe(a, b) == IF a = Null \/ b = Null THEN Null ELSE Some(Val(a) <= Val(b))
SqlGe(a, b) == IF a = Null \/ b = Null THEN Null ELSE Some(Val(a) >= Val(b))
SqlAnd(p, q) ==
    IF p = Some(FALSE) \/ q = Some(FALSE) THEN Some(FALSE)
    ELSE IF p = Null \/ q = Null THEN Null
    ELSE Some(TRUE)
SqlOr(p, q) ==
    IF p = Some(TRUE) \/ q = Some(TRUE) THEN Some(TRUE)
    ELSE IF p = Null \/ q = Null THEN Null
    ELSE Some(FALSE)
SqlSub(a, b) == IF a = Null \/ b = Null THEN Null ELSE Some(Val(a) - Val(b))
\* NULLIF(a, v): NULL when a = v
SqlNullIf(a, v) == IF a # Null /\ Val(a) = v THEN Null ELSE a

\* A quotient num/den kept exact: trip_distance / (seconds / 3600.0) in
\* miles per hour is (trip_distance * 3600) / (seconds * 100).
Ratio(n, d) == [num |-> n, den |-> d]
\* q > limit for an integer limit; the sign of the divisor decides the
\* direction of the cross-multiplied comparison, as in floating point.
RatioGt(q, limit) ==
    IF q.den > 0 THEN q.num > limit * q.den ELSE q.num < limit * q.den
SqlRatioGt(q, limit) == IF q = Null THEN Null ELSE Some(RatioGt(Val(q), limit))
\* a / (b / 3600.0) with a in hundredths of a mile: NULL when either is NULL
SqlMph(distance, seconds) ==
    IF distance = Null \/ seconds = Null THEN Null
    ELSE Some(Ratio(Val(distance) * 3600, Val(seconds) * 100))

\* ------------------------------------------------------------------------
\* settings.py
\* ------------------------------------------------------------------------
SUSPICIOUS_SPEED_LIMIT == 65
MINIMUM_TRIP_SECONDS == 60
REVENUE_ANOMALY_CAP == 20
\* 0.01 mile, in hundredths of a mile
MINIMUM_MOVEMENT_MILES == 1

CORE_ANALYTICS_SCHEMA ==
    <<"pickup_time", "dropoff_time", "pickup_loc", "dropoff_loc",
      "trip_distance", "fare", "total_amount", "congestion_surcharge">>
\* the columns of the schema, order aside
SchemaColumns == {CORE_ANALYTICS_SCHEMA[i] : i \in 1..Len(CORE_ANALYTICS_SCHEMA)}

\* ------------------------------------------------------------------------
\* ghost_trip_filter.py: audit_and_filter_trips
\* ------------------------------------------------------------------------
\* A file is the empty tuple when the path does not exist and <<rows>> when it does
Absent == <<>>
File(rows) == <<rows>>
Rows(file) == file[1]

\* EPOCH(dropoff_time - pickup_time) AS delta_t_seconds
delta_t_seconds(r) == SqlSub(r.dropoff_time, r.pickup_time)

\* CASE WHEN EPOCH(..) > 0 THEN trip_distance / (EPOCH(..) / 3600.0) ELSE 0 END
calculated_velocity_mph(r) ==
    IF IsTrue(SqlGt(delta_t_seconds(r), Some(0)))
    THEN SqlMph(r.trip_distance, delta_t_seconds(r))
    ELSE Some(Ratio(0, 1))

\* trip_distance / (NULLIF(EPOCH(..), 0) / 3600.0) > SUSPICIOUS_SPEED_LIMIT
VelocityRule(r) ==
    SqlRatioGt(SqlMph(r.trip_distance, SqlNullIf(delta_t_seconds(r), 0)),
               SUSPICIOUS_SPEED_LIMIT)

\* EPOCH(..) < MINIMUM_TRIP_SECONDS AND fare > REVENUE_ANOMALY_CAP
FinancialRule(r) ==
    SqlAnd(SqlLt(delta_t_seconds(r), Some(MINIMUM_TRIP_SECONDS)),
           SqlGt(r.fare, Some(REVENUE_ANOMALY_CAP)))

\* trip_distance <= MINIMUM_MOVEMENT_MILES AND fare > 0
SpatialRule(r) ==
    SqlAnd(SqlLe(r.trip_distance, Some(MINIMUM_MOVEMENT_MILES)),
           SqlGt(r.fare, Some(0)))

\* EPOCH(..) <= 0
TemporalRule(r) == SqlLe(delta_t_seconds(r), Some(0))

\* fare < 0 OR total_amount < 0
RevenueRule(r) == SqlOr(SqlLt(r.fare, Some(0)), SqlLt(r.total_amount, Some(0)))

\* the CASE with the temporal guardrail moved in front of the velocity audit
StatusFlagTemporalFirst(r) ==
    IF IsTrue(TemporalRule(r)) THEN "STATUS_TEMPORAL_ERROR"
    ELSE IF IsTrue(VelocityRule(r)) THEN "STATUS_EXCESSIVE_VELOCITY"
    ELSE IF IsTrue(FinancialRule(r)) THEN "STATUS_FINANCIAL_OUTLIER"
    ELSE IF IsTrue(SpatialRule(r)) THEN "STATUS_SPATIAL_ANOMALY"
    ELSE IF IsTrue(RevenueRule(r)) THEN "STATUS_NEGATIVE_REVENUE"
    ELSE "STATUS_VERIFIED"
\* The CASE expression: the first WHEN whose condition is TRUE, else VERIFIED
refinery_status_flag(r) ==
    IF IsTrue(VelocityRule(r)) THEN "STATUS_EXCESSIVE_VELOCITY"
    ELSE IF IsTrue(FinancialRule(r)) THEN "STATUS_FINANCIAL_OUTLIER"
    ELSE IF IsTrue(SpatialRule(r)) THEN "STATUS_SPATIAL_ANOMALY"
    ELSE IF IsTrue(TemporalRule(r)) THEN "STATUS_TEMPORAL_ERROR"
    ELSE IF IsTrue(RevenueRule(r)) THEN "STATUS_NEGATIVE_REVENUE"
    ELSE "STATUS_VERIFIED"

\* SELECT *, <derived columns> : one staged row per source row
StageRow(r) ==
    [c \in DOMAIN r \cup {"delta_t_seconds", "calculated_velocity_mph",
                          "refinery_status_flag"} |->
        IF c = "delta_t_seconds" THEN delta_t_seconds(r)
        ELSE IF c = "calculated_velocity_mph" THEN calculated_velocity_mph(r)
        ELSE IF c = "refinery_status_flag" THEN Some(refinery_status_flag(r))
        ELSE r[c]]

AuditStaging(rows) == [i \in 1..Len(rows) |-> StageRow(rows[i])]

IsVerified(s) == s.refinery_status_flag = Some("STATUS_VERIFIED")
\* the WHERE clause of the trace COPY dropped
IsOutlierUnfiltered(s) == TRUE
IsOutlier(s) == s.refinery_status_flag # Some("STATUS_VERIFIED")

\* SELECT pickup_time, ..., congestion_surcharge
CanonicalColumns(s) == [c \in SchemaColumns |-> s[c]]

\* SELECT *, '<source name>' AS lineage_source
WithLineage(s, name) ==
    [c \in DOMAIN s \cup {"lineage_source"} |->
        IF c = "lineage_source" THEN Some(name) ELSE s[c]]

\* COPY (SELECT ... WHERE refinery_status_flag = 'STATUS_VERIFIED') TO clean_output
VerificationExtraction(staging) ==
    LET kept == SelectSeq(staging, IsVerified)
    IN  [i \in 1..Len(kept) |-> CanonicalColumns(kept[i])]

\* COPY (SELECT *, lineage ... WHERE refinery_status_flag != 'STATUS_VERIFIED') TO outlier_output
OutlierPreservation(staging, name) ==
    LET kept == SelectSeq(staging, IsOutlier)
    IN  [i \in 1..Len(kept) |-> WithLineage(kept[i], name)]

StatusTags ==
    {"STATUS_EXCESSIVE_VELOCITY", "STATUS_FINANCIAL_OUTLIER", "STATUS_SPATIAL_ANOMALY",
     "STATUS_TEMPORAL_ERROR", "STATUS_NEGATIVE_REVENUE", "STATUS_VERIFIED"}

\* GROUP BY refinery_status_flag: record_count per status present in the staging table
AuditResultsMap(staging) ==
    LET present == {Val(staging[i].refinery_status_flag) : i \in 1..Len(staging)}
    IN  [t \in present |->
            Cardinality({i \in 1..Len(staging) : staging[i].refinery_status_flag = Some(t)})]

\* The canonical partitions audit_and_filter_trips is run on.  The four core
\* fields are non-null (synchronize_partition_schema drops the other rows).
MaxRows == 2
SourceName == "yellow_unified_yellow_tripdata_2025-01.parquet"
DropoffTimes == {700, 1000, 1030, 1300}
Distances == {Null, Some(-1000), Some(0), Some(100), Some(1000)}
Money == {<<Some(25), Some(30)>>, <<Some(-5), Some(-5)>>,
          <<Some(5), Some(-1)>>, <<Null, Some(-1)>>}
CanonicalRows ==
    {[pickup_time |-> Some(1000), dropoff_time |-> Some(d),
      pickup_loc |-> Some(1), dropoff_loc |-> Some(2),
      trip_distance |-> m, fare |-> f[1], total_amount |-> f[2],
      congestion_surcharge |-> Null] :
        d \in DropoffTimes, m \in Distances, f \in Money}
Partitions == UNION {[1..n -> CanonicalRows] : n \in 0..MaxRows}

EmptyMap == <<>>

AuditInit ==
    /\ source_rows \in Partitions
    /\ clean_file = Absent
    /\ outlier_file = Absent
    /\ audit_staging_table = <<>>
    /\ audit_results_map = EmptyMap
    /\ audit_pc = "ready"

\* The call runs to its return: staging, both COPYs, the metrics.
AuditSucceeds ==
    /\ audit_pc = "ready"
    /\ audit_staging_table' = AuditStaging(source_rows)
    /\ clean_file' = File(VerificationExtraction(audit_staging_table'))
    /\ outlier_file' = File(OutlierPreservation(audit_staging_table', SourceName))
    /\ audit_results_map' = AuditResultsMap(audit_staging_table')
    /\ audit_pc' = "done"
    /\ UNCHANGED <<source_rows, notAudit>>

\* The engine raises while the source is read into the staging table: the
\* except branch logs and returns {} with nothing written.
AuditFailsStaging ==
    /\ audit_pc = "ready"
    /\ audit_pc' = "failed"
    /\ audit_results_map' = EmptyMap
    /\ UNCHANGED <<source_rows, clean_file, outlier_file, audit_staging_table, notAudit>>

\* The engine raises on the second COPY: the purified file is already
\* written, the anomaly trace is not, and the except branch returns {}.
AuditFailsOutlierCopy ==
    /\ audit_pc = "ready"
    /\ audit_staging_table' = AuditStaging(source_rows)
    /\ clean_file' = File(VerificationExtraction(audit_staging_table'))
    /\ audit_pc' = "failed"
    /\ audit_results_map' = EmptyMap
    /\ UNCHANGED <<source_rows, outlier_file, notAudit>>

\* ------------------------------------------------------------------------
\* geo_mapping.py: execute_spatial_trip_categorization
\* ------------------------------------------------------------------------
\* datetime(2025, 1, 5) in seconds since 1970-01-01
POLICY_EFFECTIVE_DATE == 1736035200
SecondsPerDay == 86400

\* x IN (list) for a non-empty list of non-null integers
SqlIn(x, list) == IF x = Null THEN Null ELSE Some(Val(x) \in list)
SqlNot(p) == IF p = Null THEN Null ELSE Some(~Val(p))
SqlNotIn(x, list) == SqlNot(SqlIn(x, list))

\* CASE WHEN <cond> THEN 1 ELSE 0 END
Bit(p) == IF IsTrue(p) THEN 1 ELSE 0

\* the zone_category with entering and exiting exchanged
ZoneCategorySwapped(r, cbd) ==
    IF IsTrue(SqlAnd(SqlIn(r.pickup_loc, cbd), SqlIn(r.dropoff_loc, cbd)))
    THEN "inside_zone"
    ELSE IF IsTrue(SqlAnd(SqlNotIn(r.pickup_loc, cbd), SqlIn(r.dropoff_loc, cbd)))
    THEN "exiting_zone"
    ELSE IF IsTrue(SqlAnd(SqlIn(r.pickup_loc, cbd), SqlNotIn(r.dropoff_loc, cbd)))
    THEN "entering_zone"
    ELSE "outside_zone"
\* CASE ... END as zone_category
ZoneCategory(r, cbd) ==
    IF IsTrue(SqlAnd(SqlIn(r.pickup_loc, cbd), SqlIn(r.dropoff_loc, cbd)))
    THEN "inside_zone"
    ELSE IF IsTrue(SqlAnd(SqlNotIn(r.pickup_loc, cbd), SqlIn(r.dropoff_loc, cbd)))
    THEN "entering_zone"
    ELSE IF IsTrue(SqlAnd(SqlIn(r.pickup_loc, cbd), SqlNotIn(r.dropoff_loc, cbd)))
    THEN "exiting_zone"
    ELSE "outside_zone"

\* the flag set only strictly after the effective instant
AfterCongestionStartStrict(r) == Bit(SqlGt(r.pickup_time, Some(POLICY_EFFECTIVE_DATE)))
\* CASE WHEN pickup_time >= POLICY_EFFECTIVE_DATE THEN 1 ELSE 0 END
AfterCongestionStart(r) == Bit(SqlGe(r.pickup_time, Some(POLICY_EFFECTIVE_DATE)))

\* SELECT *, is_origin_cbd, is_dest_cbd, zone_category, after_congestion_start
CategorizeRow(r, cbd) ==
    [c \in DOMAIN r \cup {"is_origin_cbd", "is_dest_cbd", "zone_category",
                          "after_congestion_start"} |->
        IF c = "is_origin_cbd" THEN Some(Bit(SqlIn(r.pickup_loc, cbd)))
        ELSE IF c = "is_dest_cbd" THEN Some(Bit(SqlIn(r.dropoff_loc, cbd)))
        ELSE IF c = "zone_category" THEN Some(ZoneCategory(r, cbd))
        ELSE IF c = "after_congestion_start" THEN Some(AfterCongestionStart(r))
        ELSE r[c]]

SpatialStaging(rows, cbd) == [i \in 1..Len(rows) |-> CategorizeRow(rows[i], cbd)]

\* DATE_TRUNC('day', pickup_time)
DateTruncDay(t) == IF t = Null THEN Null ELSE Some(Val(t) - (Val(t) % SecondsPerDay))

RECURSIVE SumOver(_, _, _)
\* the sum of col over the rows of index set idx, NULLs skipped (0 when none)
SumOver(rows, idx, col) ==
    IF idx = {} THEN 0
    ELSE LET i == CHOOSE j \in idx : TRUE
             v == rows[i][col]
         IN  (IF v = Null THEN 0 ELSE Val(v)) + SumOver(rows, idx \ {i}, col)

\* AVG(col): NULL over no non-null value, else the exact quotient sum/count
SqlAvg(rows, idx, col) ==
    LET nn == {i \in idx : rows[i][col] # Null}
    IN  IF nn = {} THEN Null ELSE Some(Ratio(SumOver(rows, nn, col), Cardinality(nn)))

\* SUM(CASE WHEN congestion_surcharge > 0 THEN 1 ELSE 0 END)
TripsWithSurcharge(rows, idx) ==
    Cardinality({i \in idx : IsTrue(SqlGt(rows[i].congestion_surcharge, Some(0)))})

\* SUM(CASE WHEN congestion_surcharge IS NULL OR congestion_surcharge = 0 THEN 1 ELSE 0 END)
TripsWithoutSurcharge(rows, idx) ==
    Cardinality({i \in idx : \/ rows[i].congestion_surcharge = Null
                              \/ Val(rows[i].congestion_surcharge) = 0})

GroupKey(s) ==
    <<DateTruncDay(s.pickup_time), s.zone_category, s.after_congestion_start>>

\* COPY (SELECT ... GROUP BY trip_date, zone_category, after_congestion_start)
DatamartRows(staging) ==
    LET keys == {GroupKey(staging[i]) : i \in 1..Len(staging)}
    IN  {LET idx == {i \in 1..Len(staging) : GroupKey(staging[i]) = k}
         IN  [trip_date |-> k[1],
              zone_category |-> k[2],
              after_congestion_start |-> k[3],
              trip_count |-> Cardinality(idx),
              avg_fare |-> SqlAvg(staging, idx, "fare"),
              avg_total |-> SqlAvg(staging, idx, "total_amount"),
              avg_distance |-> SqlAvg(staging, idx, "trip_distance"),
              \* SUM(COALESCE(congestion_surcharge, 0))
              total_congestion_collected |-> SumOver(staging, idx, "congestion_surcharge"),
              trips_with_surcharge |-> TripsWithSurcharge(staging, idx),
              trips_without_surcharge |-> TripsWithoutSurcharge(staging, idx)] :
         k \in keys}

\* The verified trips and zone lists the categorization is run on.
MaxTrips == 2
ZoneLists == {{}, {1, 2, 3}, {2}, {5}, {9}, {1, 2, 3, 5, 9}}
Endpoints == {<<5, 2>>, <<2, 5>>, <<1, 2>>, <<5, 9>>}
PickupTimes == {POLICY_EFFECTIVE_DATE - 1, POLICY_EFFECTIVE_DATE + SecondsPerDay}
Surcharges == {Null, Some(0), Some(3), Some(-3)}
VerifiedTrips ==
    {[pickup_time |-> Some(t), dropoff_time |-> Some(t + 600),
      pickup_loc |-> Some(e[1]), dropoff_loc |-> Some(e[2]),
      trip_distance |-> Some(100), fare |-> Some(10), total_amount |-> Some(15),
      congestion_surcharge |-> g] :
        t \in PickupTimes, e \in Endpoints, g \in Surcharges}
RefinedInputs ==
    {Absent} \cup {File(rows) : rows \in UNION {[1..n -> VerifiedTrips] : n \in 0..MaxTrips}}

GeoInit ==
    /\ cbd_zone_identifiers \in ZoneLists
    /\ refined_trips \in RefinedInputs
    /\ spatial_audit_staging = <<>>
    /\ zone_datamart = Absent
    /\ geo_pc = "ready"

\* if not refined_partitions: warning, return
CategorizationSuspended ==
    /\ geo_pc = "ready"
    /\ refined_trips = Absent
    /\ geo_pc' = "suspended"
    /\ UNCHANGED <<cbd_zone_identifiers, refined_trips, spatial_audit_staging, zone_datamart, notGeo>>

\* an empty identifier list renders IN (), which the SQL parser rejects:
\* the except clause logs and the function returns with nothing written
CategorizationFails ==
    /\ geo_pc = "ready"
    /\ refined_trips # Absent
    /\ cbd_zone_identifiers = {}
    /\ geo_pc' = "failed"
    /\ UNCHANGED <<cbd_zone_identifiers, refined_trips, spatial_audit_staging, zone_datamart, notGeo>>

\* staging, then the datamart COPY (the file is replaced whole)
ExecuteSpatialTripCategorization ==
    /\ geo_pc = "ready"
    /\ refined_trips # Absent
    /\ cbd_zone_identifiers # {}
    /\ spatial_audit_staging' = SpatialStaging(Rows(refined_trips), cbd_zone_identifiers)
    /\ zone_datamart' = File(DatamartRows(spatial_audit_staging'))
    /\ geo_pc' = "done"
    /\ UNCHANGED <<cbd_zone_identifiers, refined_trips, notGeo>>

GeoNext == CategorizationSuspended \/ CategorizationFails \/ ExecuteSpatialTripCategorization

\* Phase 5 executed again over the same refined partitions and zone set:
\* the call opens a new connection, so the TEMP TABLE of the call before is
\* gone, and the datamart of the call before is on disk.
CategorizationCalledAgain ==
    /\ geo_pc \in {"done", "suspended", "failed"}
    /\ geo_pc' = "ready"
    /\ spatial_audit_staging' = <<>>
    /\ UNCHANGED <<cbd_zone_identifiers, refined_trips, zone_datamart, notGeo>>

\* Verified trips around the effective instant: the second before it, the
\* instant itself and the second after it (the same day as the instant).
BoundaryPickupTimes ==
    {POLICY_EFFECTIVE_DATE - 1, POLICY_EFFECTIVE_DATE, POLICY_EFFECTIVE_DATE + 1}
BoundaryTrips ==
    {[pickup_time |-> Some(t), dropoff_time |-> Some(t + 600),
      pickup_loc |-> Some(e[1]), dropoff_loc |-> Some(e[2]),
      trip_distance |-> Some(100), fare |-> Some(10), total_amount |-> Some(15),
      congestion_surcharge |-> g] :
        t \in BoundaryPickupTimes, e \in {<<5, 2>>, <<1, 2>>}, g \in {Null, Some(3)}}
RepeatInit ==
    /\ cbd_zone_identifiers \in {{1, 2, 3}, {}}
    /\ refined_trips \in
          {Absent} \cup {File(rows) :
                            rows \in UNION {[1..n -> BoundaryTrips] : n \in 0..MaxTrips}}
    /\ spatial_audit_staging = <<>>
    /\ zone_datamart = Absent
    /\ geo_pc = "ready"
RepeatNext == GeoNext \/ CategorizationCalledAgain

\* ------------------------------------------------------------------------
\* fleet_analytics.py: conduct_operational_compliance_audit
\* ------------------------------------------------------------------------
\* the fixed per-trip rate of theoretical_revenue_gap, in dollars
AssumedTollPerTrip == 9

\* the WHERE clause without its zone_category condition
IsTollLiableAnyCategory(r) == r.after_congestion_start = Some(1)
\* WHERE after_congestion_start = 1 AND zone_category IN ('entering_zone', 'exiting_zone')
IsTollLiable(r) ==
    /\ r.after_congestion_start = Some(1)
    /\ r.zone_category \in {Some("entering_zone"), Some("exiting_zone")}

RECURSIVE SumRows(_, _)
SumRows(rows, col) ==
    IF rows = {} THEN 0
    ELSE LET r == CHOOSE x \in rows : TRUE
         IN  r[col] + SumRows(rows \ {r}, col)
\* SUM(col) over the selected rows: NULL when no row is selected
SqlSum(rows, col) == IF rows = {} THEN Null ELSE Some(SumRows(rows, col))

\* ROUND(n / d, 0) for n >= 0, d > 0: half away from zero
RoundQuotient(n, d) == (2 * n + d) \div (2 * d)

\* ROUND(100.0 * SUM(trips_without_surcharge) / SUM(trip_count), 2), kept in
\* hundredths of a percent; NULL when an operand is NULL
LeakageCoefficient(leak, total) ==
    IF leak = Null \/ total = Null THEN Null
    ELSE Some(RoundQuotient(100 * 100 * Val(leak), Val(total)))

\* compliance_sql: the one row fetchone() returns
RawComplianceData(datamart) ==
    LET liable == {r \in datamart : IsTollLiable(r)}
        leak == SqlSum(liable, "trips_without_surcharge")
    IN  [observed_volume |-> SqlSum(liable, "trip_count"),
         compliant_volume |-> SqlSum(liable, "trips_with_surcharge"),
         leakage_volume |-> leak,
         leakage_coeff |-> LeakageCoefficient(leak, SqlSum(liable, "trip_count")),
         actual_revenue |-> SqlSum(liable, "total_congestion_collected"),
         revenue_gap |-> IF leak = Null THEN Null ELSE Some(Val(leak) * AssumedTollPerTrip)]

\* the telemetry lines format every metric with "," or ".2f": None raises TypeError
TelemetryRaises(metrics) == \E k \in DOMAIN metrics : metrics[k] = Null

\* COPY (SELECT <metrics> ...) TO forensic_compliance_summary.parquet
SummaryRow(metrics) ==
    [gross_volume |-> metrics.observed_volume,
     verified_volume |-> metrics.compliant_volume,
     leakage_volume |-> metrics.leakage_volume,
     leakage_percent |-> metrics.leakage_coeff,
     revenue_net |-> metrics.actual_revenue,
     revenue_loss_est |-> metrics.revenue_gap]

\* what one call leaves behind: <<pc, returned dict, summary file>>
ComplianceOutcome(datamart_file, summary_before) ==
    IF datamart_file = Absent
    THEN <<"blocked", EmptyMap, summary_before>>
    ELSE IF TelemetryRaises(RawComplianceData(Rows(datamart_file)))
    THEN <<"failed", EmptyMap, summary_before>>
    ELSE <<"done", RawComplianceData(Rows(datamart_file)),
           File(<<SummaryRow(RawComplianceData(Rows(datamart_file)))>>)>>

ConductOperationalComplianceAudit ==
    /\ compliance_pc = "ready"
    /\ compliance_pc' = ComplianceOutcome(zone_datamart, compliance_summary)[1]
    /\ audit_metrics' = ComplianceOutcome(zone_datamart, compliance_summary)[2]
    /\ compliance_summary' = ComplianceOutcome(zone_datamart, compliance_summary)[3]
    /\ UNCHANGED <<zone_datamart, notCompliance>>

\* The Daily Category Aggregates the audit is run on: at most one row per
\* (day, category, policy flag).  A group is <<p, z, n>>: p trips with a
\* surcharge of 3, z trips with a zero or null surcharge and n trips with a
\* surcharge of -3, as DatamartRows aggregates them.
TripGroups == {<<80, 20, 0>>, <<80, 19, 1>>, <<1, 2, 0>>}
OtherGroup == <<1, 1, 0>>
ZoneCategories == {"inside_zone", "entering_zone", "exiting_zone", "outside_zone"}
AggregateRow(category, flag, g) ==
    [trip_date |-> Some(POLICY_EFFECTIVE_DATE),
     zone_category |-> Some(category),
     after_congestion_start |-> Some(flag),
     trip_count |-> g[1] + g[2] + g[3],
     avg_fare |-> Some(Ratio(10, 1)),
     avg_total |-> Some(Ratio(15, 1)),
     avg_distance |-> Some(Ratio(100, 1)),
     total_congestion_collected |-> 3 * g[1] - 3 * g[3],
     trips_with_surcharge |-> g[1],
     trips_without_surcharge |-> g[2]]
\* post-policy entering and exiting rows: absent, or any of the groups
CrossBorderOptions(category) ==
    {{}} \cup {{AggregateRow(category, 1, g)} : g \in TripGroups}
CrossBorderParts ==
    {a \cup b : a \in CrossBorderOptions("entering_zone"),
                b \in CrossBorderOptions("exiting_zone")}
\* every other key: absent or present
OtherRows ==
    {AggregateRow(k[1], k[2], OtherGroup) :
        k \in (ZoneCategories \X {0, 1}) \ {<<"entering_zone", 1>>, <<"exiting_zone", 1>>}}
Aggregates == {a \cup b : a \in CrossBorderParts, b \in SUBSET OtherRows}

ComplianceInit ==
    /\ zone_datamart \in {Absent} \cup {File(a) : a \in Aggregates}
    /\ compliance_summary = Absent
    /\ audit_metrics = EmptyMap
    /\ compliance_pc = "ready"

\* ------------------------------------------------------------------------
\* File names.  A name is the tuple of its "_"-separated parts, the
\* ".parquet" suffix left out: yellow_unified_yellow_tripdata_2025-01.parquet
\* is <<"yellow", "unified", "yellow", "tripdata", "2025-01">>.  No part
\* used here holds another part as a substring, so a substring test on the
\* name is a membership test on its parts.
\* ------------------------------------------------------------------------
NameHas(name, part) == \E i \in 1..Len(name) : name[i] = part

\* str.replace(old, new) on a name
NameReplace(name, old, new) ==
    [i \in 1..Len(name) |-> IF name[i] = old THEN new ELSE name[i]]

\* settings.py YELLOW_FILE_MASK / GREEN_FILE_MASK
RawName(fleet, month) == <<fleet, "tripdata", month>>
\* data_definitions.py: f"yellow_unified_{raw_file.name}", f"green_unified_{raw_file.name}"
UnifiedName(fleet, month) == <<fleet, "unified">> \o RawName(fleet, month)

\* ------------------------------------------------------------------------
\* ghost_trip_filter.py: process_refinery_batch
\* ------------------------------------------------------------------------
\* CONSOLIDATED_DATA_DIR / partition_path.name.replace('unified', 'purified')
PurifiedPath(name) == NameReplace(name, "unified", "purified")
\* OUTLIER_TRIPS_DIR / partition_path.name.replace('unified', 'anomaly_trace')
OutlierTracePath(name) == NameReplace(name, "unified", "anomaly_trace")

\* sorted(CONSOLIDATED_DATA_DIR.glob("*.parquet"))
InputPartitions == unified_dir

\* the batch without the idempotency check: every partition is audited
ToAuditEveryPartition == InputPartitions
\* the partitions that pass the idempotency check: purified_path does not exist
ToAudit == {q \in InputPartitions : PurifiedPath(q) \notin unified_dir}

\* What audit_and_filter_trips does to one partition, as the batch sees it:
\*   "audited"      both files written, metrics returned (AuditSucceeds, >= 1 row)
\*   "no_rows"      both files written, the metrics map is empty (AuditSucceeds, 0 rows)
\*   "read_failed"  nothing written, {} returned (AuditFailsStaging)
\*   "trace_failed" purified written, trace not, {} returned (AuditFailsOutlierCopy)
AuditOutcomes == {"audited", "no_rows", "read_failed", "trace_failed"}
WritesPurified(o) == o \in {"audited", "no_rows", "trace_failed"}
WritesTrace(o) == o \in {"audited", "no_rows"}
\* if partition_metrics: (a non-empty dict)
ReturnsMetrics(o) == o = "audited"

ProcessRefineryBatch(outcome) ==
    /\ unified_dir' = unified_dir \cup
           {PurifiedPath(q) : q \in {x \in ToAudit : WritesPurified(outcome[x])}}
    /\ ghost_dir' = ghost_dir \cup
           {OutlierTracePath(q) : q \in {x \in ToAudit : WritesTrace(outcome[x])}}
    /\ refinery_report' =
           [partitions_processed |->
               Cardinality({x \in ToAudit : ReturnsMetrics(outcome[x])})]
    /\ audit_outcome' = {<<x, outcome[x]>> : x \in ToAudit}
    /\ refinery_written' =
           {PurifiedPath(q) : q \in {x \in ToAudit : WritesPurified(outcome[x])}}
           \cup {OutlierTracePath(q) : q \in {x \in ToAudit : WritesTrace(outcome[x])}}

\* audit_pipeline.py: execute_phase_3_data_refinery
ExecutePhase3 ==
    /\ \E outcome \in [ToAudit -> AuditOutcomes] : ProcessRefineryBatch(outcome)
    /\ phase3_result' =
           IF refinery_report'.partitions_processed = 0 THEN "false" ELSE "true"
    /\ UNCHANGED <<datamart_dir, zone_manifest, phase5_result, phase5_calls,
                   phase5_cbd, phase5_read, phase5_written, phase4_result, notPipe>>

\* ------------------------------------------------------------------------
\* geo_mapping.py at the level of files, and audit_pipeline.py phase 5
\* ------------------------------------------------------------------------
\* A manifest is [has_borough, polygons]: the polygons are records
\* [LocationID, zone, borough]; in a manifest without the borough column
\* zone_polygons['borough'] raises inside isolate_manhattan_cbd_centroids.
ZonePolygons ==
    {[LocationID |-> 1, zone |-> "Midtown Center", borough |-> "Manhattan"],
     [LocationID |-> 2, zone |-> "SoHo", borough |-> "Manhattan"],
     [LocationID |-> 3, zone |-> "Upper West Side North", borough |-> "Manhattan"],
     [LocationID |-> 9, zone |-> "Astoria", borough |-> "Queens"]}
\* zone.str.contains('Financial|Battery|...|Flatiron', case=False, na=False)
\* on the zone names above: "Midtown" and "SoHo" are in cbd_nomenclature
MatchesCbdNomenclature(zone) == zone \in {"Midtown Center", "SoHo"}

\* isolate_manhattan_cbd_centroids: [] from the except branch
IsolateManhattanCbdCentroids(polygons) ==
    IF ~polygons.has_borough THEN {}
    ELSE {g.LocationID : g \in {z \in polygons.polygons :
              z.borough = "Manhattan" /\ MatchesCbdNomenclature(z.zone)}}

\* CONSOLIDATED_DATA_DIR.glob("*clean*.parquet")
RefinedPartitions == {q \in unified_dir : NameHas(q, "clean")}

ZoneDatamart == <<"trips", "by", "zone", "category">>
TelemetryArtifact == <<"regional", "compliance", "telemetry">>

\* the categorization without its "if not refined_partitions: return"
CategorizationWritesUnchecked == {ZoneDatamart}
\* execute_spatial_trip_categorization(cbd), for a non-empty cbd: the
\* datamart is written iff some *clean* partition exists
CategorizationWrites == IF RefinedPartitions = {} THEN {} ELSE {ZoneDatamart}

\* perform_regional_compliance_telemetry, run after the categorization: the
\* COPY raises (caught) unless it can read a *clean* partition and the datamart
TelemetryWrites(datamart_after) ==
    IF RefinedPartitions # {} /\ ZoneDatamart \in datamart_after
    THEN {TelemetryArtifact} ELSE {}

\* spatial_polygons is None: return False
Phase5ManifestMissing ==
    /\ zone_manifest = Absent
    /\ phase5_result' = "false"
    /\ phase5_calls' = <<"ingest_geospatial_zone_polygons">>
    /\ phase5_cbd' = {}
    /\ phase5_read' = {}
    /\ phase5_written' = {}
    /\ UNCHANGED <<dirVars, refinery_report, phase3_result, audit_outcome, refinery_written, phase4_result,
                   notPipe>>

\* phase 5 without its "if not cbd_centroids: return False"
Phase5ZoneSetEmptyContinues ==
    /\ zone_manifest # Absent
    /\ IsolateManhattanCbdCentroids(Rows(zone_manifest)) = {}
    /\ phase5_cbd' = {}
    /\ phase5_read' = {}
    /\ phase5_written' = TelemetryWrites(datamart_dir)
    /\ datamart_dir' = datamart_dir \cup phase5_written'
    /\ phase5_calls' = <<"ingest_geospatial_zone_polygons",
                         "isolate_manhattan_cbd_centroids",
                         "execute_spatial_trip_categorization",
                         "perform_regional_compliance_telemetry">>
    /\ phase5_result' = "true"
    /\ UNCHANGED <<unified_dir, ghost_dir, zone_manifest, refinery_report,
                   phase3_result, audit_outcome, refinery_written, phase4_result,
                   notPipe>>
\* not cbd_centroids: return False
Phase5ZoneSetEmpty ==
    /\ zone_manifest # Absent
    /\ IsolateManhattanCbdCentroids(Rows(zone_manifest)) = {}
    /\ phase5_result' = "false"
    /\ phase5_calls' = <<"ingest_geospatial_zone_polygons",
                         "isolate_manhattan_cbd_centroids">>
    /\ phase5_cbd' = {}
    /\ phase5_read' = {}
    /\ phase5_written' = {}
    /\ UNCHANGED <<dirVars, refinery_report, phase3_result, audit_outcome, refinery_written, phase4_result,
                   notPipe>>

\* categorization, telemetry, return True
Phase5Categorizes ==
    /\ zone_manifest # Absent
    /\ IsolateManhattanCbdCentroids(Rows(zone_manifest)) # {}
    /\ phase5_cbd' = IsolateManhattanCbdCentroids(Rows(zone_manifest))
    /\ phase5_read' = RefinedPartitions
    /\ phase5_written' = CategorizationWrites
                            \cup TelemetryWrites(datamart_dir \cup CategorizationWrites)
    /\ datamart_dir' = datamart_dir \cup phase5_written'
    /\ phase5_calls' = <<"ingest_geospatial_zone_polygons",
                         "isolate_manhattan_cbd_centroids",
                         "execute_spatial_trip_categorization",
                         "perform_regional_compliance_telemetry">>
    /\ phase5_result' = "true"
    /\ UNCHANGED <<unified_dir, ghost_dir, zone_manifest, refinery_report,
                   phase3_result, audit_outcome, refinery_written, phase4_result,
                   notPipe>>

\* The warehouse the phases start from: canonical partitions written by the
\* schema alignment, possibly a refined "clean" partition put there by hand,
\* and the zone manifest as the harvest left it.
Fleets == {"yellow", "green"}
Months == {"2024-01", "2025-01"}
UnifiedNames == {UnifiedName(f, m) : f \in Fleets, m \in Months}
CleanNames == {<<"yellow", "clean", "2025-01">>}
Manifests ==
    {Absent} \cup {File([has_borough |-> b, polygons |-> z]) :
                      b \in BOOLEAN, z \in SUBSET ZonePolygons}

PipeInit ==
    /\ \E u \in SUBSET UnifiedNames, c \in SUBSET CleanNames : unified_dir = u \cup c
    /\ ghost_dir = {}
    /\ datamart_dir = {}
    /\ zone_manifest \in Manifests
    /\ refinery_report = [partitions_processed |-> 0]
    /\ phase3_result = "none"
    /\ audit_outcome = {}
    /\ refinery_written = {}
    /\ phase4_result = "none"
    /\ phase5_result = "none"
    /\ phase5_calls = <<>>
    /\ phase5_cbd = {}
    /\ phase5_read = {}
    /\ phase5_written = {}

PipeIdle ==
    /\ unified_dir = {}
    /\ ghost_dir = {}
    /\ datamart_dir = {}
    /\ zone_manifest = Absent
    /\ refinery_report = [partitions_processed |-> 0]
    /\ phase3_result = "none"
    /\ audit_outcome = {}
    /\ refinery_written = {}
    /\ phase4_result = "none"
    /\ phase5_result = "none"
    /\ phase5_calls = <<>>
    /\ phase5_cbd = {}
    /\ phase5_read = {}
    /\ phase5_written = {}

PipeNext ==
    ExecutePhase3 \/ Phase5ManifestMissing \/ Phase5ZoneSetEmpty \/ Phase5Categorizes

\* ------------------------------------------------------------------------
\* fleet_analytics.py: evaluate_inter_fleet_dynamics
\* ------------------------------------------------------------------------
\* the months the character class of each glob admits
BaselineMonths == {"2024-01", "2024-02", "2024-03"}
HorizonMonths == {"2025-01", "2025-02", "2025-03"}
\* the glob *purified*<year>-0[1-3]*.parquet on a name
MatchesWindow(name, months) ==
    \E i \in 1..Len(name) : \E j \in (i + 1)..Len(name) :
        name[i] = "purified" /\ name[j] \in months
WindowFiles(dir, months) == {f \in dir : MatchesWindow(f.name, months)}
\* CASE WHEN source_file LIKE '%yellow%' THEN ... ELSE ... END
fleet_identifier(name) ==
    IF NameHas(name, "yellow") THEN "MEDALLION_YELLOW" ELSE "MEDALLION_GREEN"
\* the rows of one GROUP BY group, each named by its file and position
GroupRows(dir, months, fleet) ==
    UNION {{<<f, i>> : i \in 1..Len(f.rows)} :
              f \in {g \in WindowFiles(dir, months) : fleet_identifier(g.name) = fleet}}
RECURSIVE SumGroup(_, _)
SumGroup(cells, col) ==
    IF cells = {} THEN 0
    ELSE LET c == CHOOSE x \in cells : TRUE
         IN  Val(c[1].rows[c[2]][col]) + SumGroup(cells \ {c}, col)
NonNull(cells, col) == {c \in cells : c[1].rows[c[2]][col] # Null}
\* COUNT(*), AVG(fare), SUM(total_amount) of one group
GroupStats(dir, months, fleet) ==
    LET cells == GroupRows(dir, months, fleet)
        fares == NonNull(cells, "fare")
        totals == NonNull(cells, "total_amount")
    IN  [fleet_identifier |-> fleet,
         trip_volume |-> Cardinality(cells),
         mean_fare |-> IF fares = {} THEN Null
                       ELSE Some(Ratio(SumGroup(fares, "fare"), Cardinality(fares))),
         gross_revenue |-> IF totals = {} THEN Null
                           ELSE Some(SumGroup(totals, "total_amount"))]
\* the rows of one window query: one per fleet identifier that has rows
WindowStats(dir, months) ==
    {GroupStats(dir, months, fleet) :
        fleet \in {id \in {"MEDALLION_YELLOW", "MEDALLION_GREEN"} :
                      GroupRows(dir, months, id) # {}}}
\* GROUP BY without ORDER BY: fetchall() returns the groups in any order
Orderings(S) ==
    {q \in [1..Cardinality(S) -> S] : \A x \in S : \E i \in 1..Cardinality(S) : q[i] = x}
\* read_parquet raises when no file matches its pattern
WindowReadRaises(dir, months) == WindowFiles(dir, months) = {}
\* ((h - b) / b * 100) if b > 0 else 0, on exact fractions
PercentChange(h, b) ==
    IF b.num > 0 THEN Ratio((h.num * b.den - b.num * h.den) * 100, h.den * b.num)
    ELSE Ratio(0, 1)
\* a None among the matched aggregates raises TypeError, in the
\* comparison with 0, in the subtraction, or in the formatted log line
PairRaises(b_row, h_row) ==
    \/ b_row.mean_fare = Null
    \/ h_row.mean_fare = Null
    \/ b_row.gross_revenue = Null
    \/ h_row.gross_revenue = Null
DynamicsRow(b_row, h_row) ==
    [fleet |-> b_row.fleet_identifier,
     vol_pre |-> b_row.trip_volume, vol_post |-> h_row.trip_volume,
     vol_change |-> PercentChange(Ratio(h_row.trip_volume, 1), Ratio(b_row.trip_volume, 1)),
     fare_pre |-> Val(b_row.mean_fare), fare_post |-> Val(h_row.mean_fare),
     fare_change |-> PercentChange(Val(h_row.mean_fare), Val(b_row.mean_fare)),
     rev_pre |-> Val(b_row.gross_revenue), rev_post |-> Val(h_row.gross_revenue),
     rev_change |-> PercentChange(Ratio(Val(h_row.gross_revenue), 1),
                                  Ratio(Val(b_row.gross_revenue), 1))]
\* the inner loop: for h_row in horizon_stats: if h_row[0] == fleet: append
RECURSIVE MatchHorizon(_, _)
MatchHorizon(b_row, h_rows) ==
    IF h_rows = <<>> THEN <<>>
    ELSE (IF Head(h_rows).fleet_identifier = b_row.fleet_identifier
          THEN <<DynamicsRow(b_row, Head(h_rows))>> ELSE <<>>)
         \o MatchHorizon(b_row, Tail(h_rows))
\* the outer loop: for b_row in baseline_stats
RECURSIVE ComparativeSynthesis(_, _)
ComparativeSynthesis(b_rows, h_rows) ==
    IF b_rows = <<>> THEN <<>>
    ELSE MatchHorizon(Head(b_rows), h_rows) \o ComparativeSynthesis(Tail(b_rows), h_rows)
SynthesisRaises(b_rows, h_rows) ==
    \E i \in 1..Len(b_rows) : \E j \in 1..Len(h_rows) :
        /\ h_rows[j].fleet_identifier = b_rows[i].fleet_identifier
        /\ PairRaises(b_rows[i], h_rows[j])

\* The whole call.  Any exception leaves the behavioral matrix as it was
\* and returns {}; the matrix is written only for a non-empty report.
EvaluateInterFleetDynamics ==
    /\ fleet_pc = "ready"
    /\ IF WindowReadRaises(purified_dir, BaselineMonths)
       THEN /\ fleet_pc' = "failed"
            /\ fleet_dynamics' = <<>>
            /\ UNCHANGED <<baseline_stats, horizon_stats, behavioral_matrix>>
       ELSE \E b_rows \in Orderings(WindowStats(purified_dir, BaselineMonths)) :
            /\ baseline_stats' = b_rows
            /\ IF WindowReadRaises(purified_dir, HorizonMonths)
               THEN /\ fleet_pc' = "failed"
                    /\ fleet_dynamics' = <<>>
                    /\ UNCHANGED <<horizon_stats, behavioral_matrix>>
               ELSE \E h_rows \in Orderings(WindowStats(purified_dir, HorizonMonths)) :
                    /\ horizon_stats' = h_rows
                    /\ IF SynthesisRaises(b_rows, h_rows)
                       THEN /\ fleet_pc' = "failed"
                            /\ fleet_dynamics' = <<>>
                            /\ UNCHANGED behavioral_matrix
                       ELSE LET dynamics_report_data == ComparativeSynthesis(b_rows, h_rows)
                            IN  /\ fleet_pc' = "done"
                                /\ fleet_dynamics' = <<dynamics_report_data>>
                                /\ behavioral_matrix' =
                                      IF dynamics_report_data # <<>>
                                      THEN File(dynamics_report_data)
                                      ELSE behavioral_matrix
    /\ UNCHANGED purified_dir
    /\ UNCHANGED notFleet

\* Directories of purified partitions: per fleet and month at most one
\* file, holding no record, records with amounts, or records without
PurifiedName(fleet, month) == <<fleet, "purified", fleet, "tripdata", month>>
FleetMonths == {"2024-01", "2024-04", "2025-02"}
FleetRow(f, t) == [fare |-> f, total_amount |-> t]
FleetContents ==
    {<<>>,
     <<FleetRow(Some(10), Some(15))>>,
     <<FleetRow(Null, Null)>>,
     <<FleetRow(Some(10), Some(15)), FleetRow(Some(30), Some(36))>>}
PurifiedDirs ==
    {{[name |-> PurifiedName(k[1], k[2]), rows |-> c[k]] : k \in K} :
        K \in SUBSET (Fleets \X FleetMonths),
        c \in [Fleets \X FleetMonths -> FleetContents]}
FleetInit ==
    /\ purified_dir \in PurifiedDirs
    /\ baseline_stats = <<>>
    /\ horizon_stats = <<>>
    /\ fleet_dynamics = <<>>
    /\ behavioral_matrix = Absent
    /\ fleet_pc = "ready"

\* ------------------------------------------------------------------------
\* data_definitions.py: construct_structural_mapping_query and
\* synchronize_partition_schema
\* ------------------------------------------------------------------------
\* A legacy map is the sequence of its (source column, target column)
\* items, in insertion order.
YELLOW_LEGACY_MAP ==
    << <<"tpep_pickup_datetime", "pickup_time">>,
       <<"tpep_dropoff_datetime", "dropoff_time">>,
       <<"PULocationID", "pickup_loc">>,
       <<"DOLocationID", "dropoff_loc">>,
       <<"trip_distance", "trip_distance">>,
       <<"fare_amount", "fare">>,
       <<"total_amount", "total_amount">>,
       <<"congestion_surcharge", "congestion_surcharge">> >>
GREEN_LEGACY_MAP ==
    << <<"lpep_pickup_datetime", "pickup_time">>,
       <<"lpep_dropoff_datetime", "dropoff_time">>,
       <<"PULocationID", "pickup_loc">>,
       <<"DOLocationID", "dropoff_loc">>,
       <<"trip_distance", "trip_distance">>,
       <<"fare_amount", "fare">>,
       <<"total_amount", "total_amount">>,
       <<"congestion_surcharge", "congestion_surcharge">> >>
\* legacy_map.values()
MapValues(legacy_map) == {legacy_map[i][2] : i \in 1..Len(legacy_map)}
\* [source_k for source_k, target_v in legacy_map.items() if target_v == target_col][0]
LegacyId(legacy_map, target_col) ==
    LET first == CHOOSE i \in 1..Len(legacy_map) :
                    /\ legacy_map[i][2] = target_col
                    /\ \A j \in 1..(i - 1) : legacy_map[j][2] # target_col
    IN  legacy_map[first][1]
\* the type each target column is cast to
CastType(target_col) ==
    IF target_col \in {"pickup_time", "dropoff_time"} THEN "TIMESTAMP"
    ELSE IF target_col \in {"trip_distance", "fare", "total_amount", "congestion_surcharge"}
    THEN "DOUBLE"
    ELSE IF target_col \in {"pickup_loc", "dropoff_loc"} THEN "INTEGER"
    ELSE "NONE"
\* one segment of the SELECT list per target column, in schema order:
\* CAST(legacy_id AS type) AS target_col, or NULL AS target_col
MappingSegment(legacy_map, target_col) ==
    IF target_col \in MapValues(legacy_map)
    THEN [target |-> target_col, legacy_id |-> <<LegacyId(legacy_map, target_col)>>,
          cast |-> CastType(target_col)]
    ELSE [target |-> target_col, legacy_id |-> <<>>, cast |-> "NONE"]
construct_structural_mapping_query(legacy_map) ==
    [i \in 1..Len(CORE_ANALYTICS_SCHEMA) |->
        MappingSegment(legacy_map, CORE_ANALYTICS_SCHEMA[i])]
\* CAST(v AS type) of a value already in the type's range: NULL stays NULL,
\* a timestamp, an amount in dollars and a zone id keep their value
Cast(type, v) == IF v = Null THEN Null ELSE Some(Val(v))
\* the value of one segment on a source row
SegmentValue(seg, row) ==
    IF seg.legacy_id = <<>> THEN Null ELSE Cast(seg.cast, row[seg.legacy_id[1]])
\* the binder rejects a query naming a column the source does not have
BinderRaises(segments, columns) ==
    \E i \in 1..Len(segments) :
        segments[i].legacy_id # <<>> /\ segments[i].legacy_id[1] \notin columns
\* a name in the WHERE clause is a source column when the source has one of
\* that name, and the SELECT alias otherwise
WhereValue(name, segments, row) ==
    IF name \in DOMAIN row THEN row[name]
    ELSE LET i == CHOOSE k \in 1..Len(segments) : segments[k].target = name
         IN  SegmentValue(segments[i], row)
\* the WHERE clause without its conjunct on dropoff_loc
PassesCoreFilterButDropoffLoc(segments, row) ==
    \A name \in {"pickup_time", "dropoff_time", "pickup_loc"} :
        WhereValue(name, segments, row) # Null
\* WHERE pickup_time IS NOT NULL AND dropoff_time IS NOT NULL AND ...
PassesCoreFilter(segments, row) ==
    \A name \in {"pickup_time", "dropoff_time", "pickup_loc", "dropoff_loc"} :
        WhereValue(name, segments, row) # Null
\* the row the SELECT list produces
AlignedRow(segments, row) ==
    [c \in {segments[i].target : i \in 1..Len(segments)} |->
        LET i == CHOOSE k \in 1..Len(segments) : segments[k].target = c
        IN  SegmentValue(segments[i], row)]
RECURSIVE AlignmentQuery(_, _)
AlignmentQuery(segments, rows) ==
    IF rows = <<>> THEN <<>>
    ELSE (IF PassesCoreFilter(segments, Head(rows))
          THEN <<AlignedRow(segments, Head(rows))>> ELSE <<>>)
         \o AlignmentQuery(segments, Tail(rows))

\* The raw partitions and maps the synchronization is run on.  A raw
\* partition of the yellow variant has the eight mapped columns and
\* VendorID; the four core fields and the fare may be null.
LegacyColumns ==
    {"VendorID", "tpep_pickup_datetime", "tpep_dropoff_datetime", "PULocationID",
     "DOLocationID", "trip_distance", "fare_amount", "total_amount",
     "congestion_surcharge"}
RawRow(pu_time, do_time, pu_loc, do_loc, fare_amount) ==
    [c \in LegacyColumns |->
        CASE c = "tpep_pickup_datetime" -> pu_time
          [] c = "tpep_dropoff_datetime" -> do_time
          [] c = "PULocationID" -> pu_loc
          [] c = "DOLocationID" -> do_loc
          [] c = "fare_amount" -> fare_amount
          [] c = "trip_distance" -> Some(100)
          [] c = "total_amount" -> Some(15)
          [] c = "congestion_surcharge" -> Null
          [] OTHER -> Some(1)]
RawRows ==
    {RawRow(a, b, c, d, f) : a \in {Null, Some(1000)}, b \in {Null, Some(1600)},
                             c \in {Null, Some(5)}, d \in {Null, Some(2)},
                             f \in {Null, Some(10)}}
RawFragments == UNION {[1..n -> RawRows] : n \in 0..MaxRows}
\* the configured yellow map, the green map (whose timestamp columns a
\* yellow partition lacks), a map without surcharge, a map without pickup
\* time, and a map with two sources for pickup_loc
LegacyMaps ==
    {YELLOW_LEGACY_MAP,
     GREEN_LEGACY_MAP,
     SubSeq(YELLOW_LEGACY_MAP, 1, 7),
     SubSeq(YELLOW_LEGACY_MAP, 2, 8),
     YELLOW_LEGACY_MAP \o << <<"VendorID", "pickup_loc">> >>}
SyncInit ==
    /\ source_fragment \in RawFragments
    /\ source_map \in LegacyMaps
    /\ destination_fragment = Absent
    /\ sync_pc = "ready"

\* COPY (...) TO destination_fragment, the count, return True
SynchronizeSucceeds ==
    /\ sync_pc = "ready"
    /\ ~BinderRaises(construct_structural_mapping_query(source_map), LegacyColumns)
    /\ destination_fragment' =
          File(AlignmentQuery(construct_structural_mapping_query(source_map),
                              source_fragment))
    /\ sync_pc' = "done"
    /\ UNCHANGED <<source_fragment, source_map, notSync>>
\* the COPY raises before anything is written: logged, return False
SynchronizeFails ==
    /\ sync_pc = "ready"
    /\ BinderRaises(construct_structural_mapping_query(source_map), LegacyColumns)
    /\ sync_pc' = "failed"
    /\ UNCHANGED <<source_fragment, source_map, destination_fragment, notSync>>

\* ------------------------------------------------------------------------
\* data_definitions.py: orchestrate_fleet_schema_alignment, at the level of
\* files
\* ------------------------------------------------------------------------
\* CONSOLIDATED_DATA_DIR / f"{fleet}_unified_{raw_file.name}"
TargetFile(x) == <<x[1], "unified">> \o x[2]
\* the raw partitions of both silos, each with its fleet
RawPartitions ==
    {<<"yellow", n>> : n \in raw_yellow_dir} \cup {<<"green", n>> : n \in raw_green_dir}
\* target_file.exists(): skipped
Cached == {x \in RawPartitions : TargetFile(x) \in unified_dir}
\* the loop without the existence test: every partition is synchronized
ToAlignAll == RawPartitions
\* the partitions handed to synchronize_partition_schema
ToAlign == RawPartitions \ Cached
OfFleet(xs, fleet) == Cardinality({x \in xs : x[1] = fleet})
\* the tallies after the two loops, failed being the partitions whose
\* synchronization returned False
AlignmentTelemetry(attempted, skipped, failed) ==
    [yellow_aligned |-> OfFleet(attempted \ failed, "yellow"),
     yellow_skipped |-> OfFleet(skipped, "yellow"),
     green_aligned |-> OfFleet(attempted \ failed, "green"),
     green_skipped |-> OfFleet(skipped, "green"),
     critical_failures |-> Cardinality(failed)]
\* The whole call: a partition whose synchronization fails writes nothing
\* and the loops go on.
OrchestrateFleetSchemaAlignment ==
    \E failed \in SUBSET ToAlign :
        /\ unified_dir' = unified_dir \cup {TargetFile(x) : x \in ToAlign \ failed}
        /\ alignment_telemetry' =
              <<AlignmentTelemetry(ToAlign, RawPartitions \ ToAlign, failed)>>
        /\ align_attempted' = ToAlign
        /\ align_failed' = failed
        /\ prior_telemetry' = alignment_telemetry
        /\ UNCHANGED <<raw_yellow_dir, raw_green_dir, ghost_dir, datamart_dir,
                       zone_manifest, phaseVars, notAlign>>

\* The silos as the harvest left them, and the canonical partitions of
\* earlier runs.
RawNames(fleet) == {RawName(fleet, m) : m \in Months}
PhasesIdle ==
    /\ ghost_dir = {}
    /\ datamart_dir = {}
    /\ zone_manifest = Absent
    /\ refinery_report = [partitions_processed |-> 0]
    /\ phase3_result = "none"
    /\ audit_outcome = {}
    /\ refinery_written = {}
    /\ phase4_result = "none"
    /\ phase5_result = "none"
    /\ phase5_calls = <<>>
    /\ phase5_cbd = {}
    /\ phase5_read = {}
    /\ phase5_written = {}
AlignInit ==
    /\ raw_yellow_dir \in SUBSET RawNames("yellow")
    /\ raw_green_dir \in SUBSET RawNames("green")
    /\ unified_dir \in SUBSET UnifiedNames
    /\ alignment_telemetry = <<>>
    /\ align_attempted = {}
    /\ align_failed = {}
    /\ prior_telemetry = <<>>
    /\ PhasesIdle

\* ------------------------------------------------------------------------
\* audit_pipeline.py phase 4 at the level of files, and the phases that
\* run after it
\* ------------------------------------------------------------------------
\* the glob *{fleet}*{month}*.parquet on a name
MatchesFleetMonth(name, fleet, month) ==
    \E i \in 1..Len(name) : \E j \in (i + 1)..Len(name) :
        name[i] = fleet /\ name[j] = month
\* verify_december_payload_presence over the directory
DecemberPresent ==
    \A fleet \in {"yellow", "green"} :
        \E n \in unified_dir : MatchesFleetMonth(n, fleet, "2025-12")
\* both historical_cycle_23 and historical_cycle_24 are non-empty
AnchorsPresent(fleet) ==
    \A month \in {"2023-12", "2024-12"} :
        \E n \in unified_dir : MatchesFleetMonth(n, fleet, month)
\* the synthetic partition stored under the canonical name of the month
VirtualNameOnCanonicalPath(fleet) == UnifiedName(fleet, "2025-12")
\* missing_value_handler.py: f"virtual_{fleet_category}_dec2025_metrics.parquet"
VirtualName(fleet) == <<"virtual", fleet, "dec2025", "metrics">>
\* execute_phase_4_si_imputation: the recovery writes the synthetic
\* partition of each fleet that has its two anchors, and the phase returns
\* True whatever the recovery reports
ExecutePhase4 ==
    /\ unified_dir' =
          IF DecemberPresent THEN unified_dir
          ELSE unified_dir \cup {VirtualName(f) : f \in {g \in {"yellow", "green"} :
                                                            AnchorsPresent(g)}}
    /\ phase4_result' = "true"
    /\ UNCHANGED <<ghost_dir, datamart_dir, zone_manifest, refinery_report,
                   phase3_result, audit_outcome, refinery_written, phase5_result,
                   phase5_calls, phase5_cbd, phase5_read, phase5_written, notPipe>>

\* The directory the imputation and the later phases find: December anchors,
\* a 2025 partition, a refined "clean" partition; the zone manifest is the
\* full one, and data/processed/purified is empty or holds a fleet's
\* partitions of both windows.
RecoveryNames ==
    {UnifiedName(f, m) : f \in Fleets, m \in {"2023-12", "2024-12"}}
        \cup {UnifiedName("yellow", "2025-12"), UnifiedName("green", "2025-12")}
        \cup CleanNames
RecoveryPurifiedDirs ==
    {{},
     {[name |-> PurifiedName("yellow", "2024-01"), rows |-> <<FleetRow(Some(10), Some(15))>>],
      [name |-> PurifiedName("yellow", "2025-02"), rows |-> <<FleetRow(Some(30), Some(36))>>]}}
RecoveryInit ==
    /\ unified_dir \in SUBSET RecoveryNames
    /\ zone_manifest = File([has_borough |-> TRUE, polygons |-> ZonePolygons])
    /\ ghost_dir = {}
    /\ datamart_dir = {}
    /\ refinery_report = [partitions_processed |-> 0]
    /\ phase3_result = "none"
    /\ audit_outcome = {}
    /\ refinery_written = {}
    /\ phase4_result = "none"
    /\ phase5_result = "none"
    /\ phase5_calls = <<>>
    /\ phase5_cbd = {}
    /\ phase5_read = {}
    /\ phase5_written = {}
    /\ purified_dir \in RecoveryPurifiedDirs
    /\ baseline_stats = <<>>
    /\ horizon_stats = <<>>
    /\ fleet_dynamics = <<>>
    /\ behavioral_matrix = Absent
    /\ fleet_pc = "ready"

\* ------------------------------------------------------------------------
\* The refinery batch over a directory that already holds what the later
\* phases and earlier batches leave in it
\* ------------------------------------------------------------------------
ScannedNames ==
    UnifiedNames \cup {PurifiedPath(UnifiedName("yellow", "2024-01"))}
        \cup CleanNames \cup {VirtualName("yellow")}
RefineryInit ==
    /\ unified_dir \in SUBSET ScannedNames
    /\ raw_yellow_dir = {}
    /\ raw_green_dir = {}
    /\ alignment_telemetry = <<>>
    /\ align_attempted = {}
    /\ align_failed = {}
    /\ prior_telemetry = <<>>
    /\ PhasesIdle

\* ------------------------------------------------------------------------
\* missing_value_handler.py: the weighted cycle imputation
\* ------------------------------------------------------------------------
\* settings.py: 0.3 and 0.7, kept in tenths
HISTORICAL_CYCLE_WEIGHT == 3
RECENCY_TREND_WEIGHT == 7
WeightScale == 10

\* glob(f"*{fleet}*{month}*.parquet") over the files that exist
GlobFleetMonth(w, fleet, month) ==
    {n \in DOMAIN w : w[n] # Absent /\ MatchesFleetMonth(n, fleet, month)}

\* verify_december_payload_presence
VerifyDecemberPayloadPresence(w) ==
    /\ GlobFleetMonth(w, "yellow", "2025-12") # {}
    /\ GlobFleetMonth(w, "green", "2025-12") # {}

\* EXTRACT(DAY FROM pickup_time): an anchor row keeps pickup_time as its day
\* of the month, the only part of it the queries read
CalendarDays(rows) == {rows[i].pickup_time : i \in 1..Len(rows)}
DayRows(rows, day) == {i \in 1..Len(rows) : rows[i].pickup_time = day}
\* AVG(COALESCE(congestion_surcharge, 0))
MeanSurcharge(rows, idx) ==
    Some(Ratio(SumOver(rows, idx, "congestion_surcharge"), Cardinality(idx)))
\* MODE(col): a most frequent value; which one among several is not fixed
Modes(rows, idx, col) ==
    {rows[i][col] : i \in {k \in idx :
        \A m \in idx : Cardinality({x \in idx : rows[x][col] = rows[m][col]})
                          <= Cardinality({x \in idx : rows[x][col] = rows[k][col]})}}
\* w1 * a + w2 * b on exact quotients: NULL when either is NULL
WeightedValue(a, b) ==
    IF a = Null \/ b = Null THEN Null
    ELSE Some(Ratio(HISTORICAL_CYCLE_WEIGHT * Val(a).num * Val(b).den
                        + RECENCY_TREND_WEIGHT * Val(b).num * Val(a).den,
                    WeightScale * Val(a).den * Val(b).den))
\* CAST(... AS INTEGER) with no rounding at all: the integer part
CastIntegerTruncating(tenths) == tenths \div WeightScale
\* CAST(... AS INTEGER) of a non-negative decimal given in tenths: rounded
\* to the nearest integer, a half upwards
CastInteger(tenths) == (tenths + (WeightScale \div 2)) \div WeightScale
\* CAST(w1 * c23.volume + w2 * c24.volume AS INTEGER)
EstimatedVolume(v23, v24) ==
    CastInteger(HISTORICAL_CYCLE_WEIGHT * v23 + RECENCY_TREND_WEIGHT * v24)

\* one row of synthesized_horizon_2025 with the three columns the COPY adds
SynthesizedRow(rows23, rows24, day, origin, destination) ==
    LET i23 == DayRows(rows23, day)
        i24 == DayRows(rows24, day)
    IN  [calendar_day |-> day,
         estimated_volume |-> EstimatedVolume(Cardinality(i23), Cardinality(i24)),
         estimated_fare |->
             WeightedValue(SqlAvg(rows23, i23, "fare"), SqlAvg(rows24, i24, "fare")),
         estimated_gross |->
             WeightedValue(SqlAvg(rows23, i23, "total_amount"),
                           SqlAvg(rows24, i24, "total_amount")),
         estimated_distance |->
             WeightedValue(SqlAvg(rows23, i23, "trip_distance"),
                           SqlAvg(rows24, i24, "trip_distance")),
         estimated_surcharge |->
             WeightedValue(MeanSurcharge(rows23, i23), MeanSurcharge(rows24, i24)),
         primary_origin |-> origin,
         primary_destination |-> destination,
         cycle_w |-> HISTORICAL_CYCLE_WEIGHT,
         trend_w |-> RECENCY_TREND_WEIGHT,
         record_ancestry |-> "SYNTHETIC_SI_MODEL"]
\* JOIN ... ON c23.calendar_day = c24.calendar_day
JoinedDays(rows23, rows24) == CalendarDays(rows23) \cap CalendarDays(rows24)
\* the tables the synthesis can produce, one per choice of modal zones
SynthesizedTables(rows23, rows24) ==
    LET days == JoinedDays(rows23, rows24)
        zones == UNION {Modes(rows24, DayRows(rows24, d), "pickup_loc")
                          \cup Modes(rows24, DayRows(rows24, d), "dropoff_loc") : d \in days}
    IN  {{SynthesizedRow(rows23, rows24, d, o[d], t[d]) : d \in days} :
            <<o, t>> \in {c \in [days -> zones] \X [days -> zones] :
                \A d \in days :
                    /\ c[1][d] \in Modes(rows24, DayRows(rows24, d), "pickup_loc")
                    /\ c[2][d] \in Modes(rows24, DayRows(rows24, d), "dropoff_loc")}}
\* SELECT SUM(estimated_volume) is NULL over an empty table, and
\* f"{projected_volume:,}" of None raises: the except branch returns False
\* after the partition has been written
ProjectionRaises(table) == table = {}
\* missing_value_handler.py: f"virtual_{fleet_category}_dec2025_metrics.parquet"
StorageDest(fleet) == VirtualName(fleet)
\* execute_cycle_imputation: the pairs <<returned value, directory after it>>
ExecuteCycleImputation(w, fleet) ==
    LET historical_cycle_23 == GlobFleetMonth(w, fleet, "2023-12")
        historical_cycle_24 == GlobFleetMonth(w, fleet, "2024-12")
    IN  IF historical_cycle_23 = {} \/ historical_cycle_24 = {}
        THEN {<<FALSE, w>>}
        ELSE {<<~ProjectionRaises(table), [w EXCEPT ![StorageDest(fleet)] = File(table)]>> :
                table \in UNION {SynthesizedTables(Rows(w[a]), Rows(w[b])) :
                                    a \in historical_cycle_23, b \in historical_cycle_24}}

\* run_comprehensive_data_recovery
RunComprehensiveDataRecovery ==
    /\ IF VerifyDecemberPayloadPresence(warehouse)
       THEN /\ recovery_telemetry' =
                  <<[horizon_gap_detected |-> FALSE, yellow_recovered |-> FALSE,
                     green_recovered |-> FALSE]>>
            /\ warehouse' = warehouse
       ELSE \E y \in ExecuteCycleImputation(warehouse, "yellow") :
                \E g \in ExecuteCycleImputation(y[2], "green") :
                    /\ recovery_telemetry' =
                          <<[horizon_gap_detected |-> TRUE, yellow_recovered |-> y[1],
                             green_recovered |-> g[1]]>>
                    /\ warehouse' = g[2]
    /\ UNCHANGED notImpute

\* The canonical December partitions the imputation can find: the yellow
\* anchors with any rows, the green anchors and the 2025 partitions present
\* or not.
MaxAnchorRows == 2
AnchorRow(day, fare, gross, surcharge, origin, destination) ==
    [pickup_time |-> day, dropoff_time |-> day, pickup_loc |-> origin,
     dropoff_loc |-> destination, trip_distance |-> Some(100), fare |-> fare,
     total_amount |-> gross, congestion_surcharge |-> surcharge]
AnchorRows ==
    {AnchorRow(1, Some(10), Some(12), Null, 1, 2),
     AnchorRow(1, Some(25), Some(30), Some(2), 2, 1),
     AnchorRow(1, Null, Null, Some(0), 2, 2),
     AnchorRow(2, Some(10), Some(12), Null, 1, 2)}
AnchorFiles ==
    {Absent} \cup {File(rows) : rows \in UNION {[1..n -> AnchorRows] : n \in 0..MaxAnchorRows}}
GreenAnchorFiles == {Absent, File(<<AnchorRow(1, Some(10), Some(12), Null, 1, 2)>>)}
HorizonFiles == {Absent, File(<<>>)}
WarehouseNames ==
    {UnifiedName(f, m) : f \in Fleets, m \in {"2023-12", "2024-12", "2025-12"}}
        \cup {VirtualName(f) : f \in Fleets}
ImputeInit ==
    /\ \E y23 \in AnchorFiles, y24 \in AnchorFiles,
          g23 \in GreenAnchorFiles, g24 \in GreenAnchorFiles,
          y25 \in HorizonFiles, g25 \in HorizonFiles :
          warehouse =
              [n \in WarehouseNames |->
                  CASE n = UnifiedName("yellow", "2023-12") -> y23
                    [] n = UnifiedName("yellow", "2024-12") -> y24
                    [] n = UnifiedName("green", "2023-12") -> g23
                    [] n = UnifiedName("green", "2024-12") -> g24
                    [] n = UnifiedName("yellow", "2025-12") -> y25
                    [] n = UnifiedName("green", "2025-12") -> g25
                    [] OTHER -> Absent]
    /\ recovery_telemetry = <<>>

\* The directory the imputation finds after the refinery ran, or before:
\* the yellow anchors, and next to the 2023 anchor its purified partition,
\* which holds the rows of the anchor the audit verified, in their order.
Subsequence(rows, keep) ==
    [i \in 1..Cardinality(keep) |->
        rows[CHOOSE j \in keep : Cardinality({k \in keep : k < j}) = i - 1]]
PurifiedOf(file) ==
    {File(Subsequence(Rows(file), keep)) : keep \in SUBSET (1..Len(Rows(file)))}
RecentAnchorFiles ==
    {File(<<AnchorRow(1, Some(10), Some(12), Null, 1, 2)>>),
     File(<<AnchorRow(2, Some(25), Some(30), Some(2), 2, 1)>>)}
AnchorChoiceInit ==
    /\ \E y23 \in AnchorFiles \ {Absent}, y24 \in RecentAnchorFiles :
          \E p23 \in {Absent} \cup PurifiedOf(y23) :
              warehouse =
                  [n \in WarehouseNames \cup {PurifiedPath(UnifiedName("yellow", "2023-12"))} |->
                      CASE n = UnifiedName("yellow", "2023-12") -> y23
                        [] n = UnifiedName("yellow", "2024-12") -> y24
                        [] n = PurifiedPath(UnifiedName("yellow", "2023-12")) -> p23
                        [] OTHER -> Absent]
    /\ recovery_telemetry = <<>>

\* ------------------------------------------------------------------------
\* audit_pipeline.py: main and orchestrate_holistic_audit_execution
\* ------------------------------------------------------------------------
\* the keys of phase_success_matrix, in the order of the nested calls
PhaseKeys ==
    <<"Phase 1: Ingestion", "Phase 2: Schema", "Phase 3: Refinery", "Phase 4: Imputation",
      "Phase 5: Geospatial", "Phase 6/7: Metrics", "Phase 8: Visuals", "Phase 9: Climate",
      "Phase 10: Reporting">>
\* targeted_execution_map: --phase 6 and --phase 7 name the same function
TargetedPosition(phase) == IF phase <= 6 THEN phase ELSE phase - 1
\* what a phase function can return: phases 4, 8, 9 and 10 end in "return True"
\* on their only path, the others also have a "return False"
PhaseOutcomes(position) ==
    IF PhaseKeys[position] \in {"Phase 4: Imputation", "Phase 8: Visuals",
                                "Phase 9: Climate", "Phase 10: Reporting"}
    THEN {TRUE} ELSE BOOLEAN
\* the orchestration calling the next phase whatever came before
MayStartUnconditionally(position) == TRUE
\* the guards of the nested ifs: phase 1 unless bypassed, a later phase if
\* the one before it is recorded as successful
MayStart(position) ==
    IF position = 1 THEN ~skip_ingestion
    ELSE phase_success_matrix[position - 1]

\* main: if args.phase: ... else: orchestrate_holistic_audit_execution(...)
MainDispatch ==
    /\ orch_pc = "main"
    /\ IF args_phase # 0
       THEN orch_pc' = "targeted" /\ running_phase' = TargetedPosition(args_phase)
       ELSE orch_pc' = "orchestrating" /\ running_phase' = 0
    /\ UNCHANGED <<args_phase, skip_ingestion, phase_success_matrix, phases_started,
                   all_finalized, exit_code, notOrch>>
\* was_successful = targeted_execution_map[args.phase](); sys.exit(...)
TargetedPhaseReturns ==
    /\ orch_pc = "targeted"
    /\ \E was_successful \in PhaseOutcomes(running_phase) :
          exit_code' = Some(IF was_successful THEN 0 ELSE 1)
    /\ running_phase' = 0
    /\ orch_pc' = "exited"
    /\ UNCHANGED <<args_phase, skip_ingestion, phase_success_matrix, phases_started,
                   all_finalized, notOrch>>
\* skip_ingestion: phase_success_matrix['Phase 1: Ingestion'] = True
BypassPhase1 ==
    /\ orch_pc = "orchestrating"
    /\ phase_success_matrix = <<>>
    /\ skip_ingestion
    /\ phase_success_matrix' = <<TRUE>>
    /\ UNCHANGED <<args_phase, skip_ingestion, orch_pc, running_phase, phases_started,
                   all_finalized, exit_code, notOrch>>
\* the call of the next phase function
StartPhase ==
    /\ orch_pc = "orchestrating"
    /\ Len(phase_success_matrix) < Len(PhaseKeys)
    /\ MayStart(Len(phase_success_matrix) + 1)
    /\ running_phase' = Len(phase_success_matrix) + 1
    /\ phases_started' = Append(phases_started, Len(phase_success_matrix) + 1)
    /\ orch_pc' = "running"
    /\ UNCHANGED <<args_phase, skip_ingestion, phase_success_matrix, all_finalized,
                   exit_code, notOrch>>
\* its return value is stored under the phase's key
PhaseReturns ==
    /\ orch_pc = "running"
    /\ \E was_successful \in PhaseOutcomes(running_phase) :
          phase_success_matrix' = Append(phase_success_matrix, was_successful)
    /\ running_phase' = 0
    /\ orch_pc' = "orchestrating"
    /\ UNCHANGED <<args_phase, skip_ingestion, phases_started, all_finalized, exit_code,
                   notOrch>>
\* the summary loop, return all_finalized, and main's sys.exit
OrchestrationReturns ==
    /\ orch_pc = "orchestrating"
    /\ phase_success_matrix # <<>>
    /\ \/ Len(phase_success_matrix) = Len(PhaseKeys)
       \/ ~MayStart(Len(phase_success_matrix) + 1)
    /\ LET finalized == \A i \in 1..Len(phase_success_matrix) : phase_success_matrix[i]
       IN  /\ all_finalized' = Some(finalized)
           /\ exit_code' = Some(IF finalized THEN 0 ELSE 1)
    /\ orch_pc' = "exited"
    /\ UNCHANGED <<args_phase, skip_ingestion, phase_success_matrix, running_phase,
                   phases_started, notOrch>>

\* --phase is one of range(1, 11) or absent, --skip-harvest is a flag
OrchInit ==
    /\ args_phase \in 0..10
    /\ skip_ingestion \in BOOLEAN
    /\ orch_pc = "main"
    /\ phase_success_matrix = <<>>
    /\ running_phase = 0
    /\ phases_started = <<>>
    /\ all_finalized = Null
    /\ exit_code = Null

\* ------------------------------------------------------------------------
\* The analytical stages called one at a time on the directories:
\* geo_mapping.py and fleet_analytics.py at the level of files
\* ------------------------------------------------------------------------
SummaryArtifact == <<"forensic", "compliance", "summary">>
\* conduct_operational_compliance_audit: <<returned, written>>.  Without the
\* datamart it returns {} before any query; with it the outcome depends on
\* the rows: the metrics and the summary, or {} from the except clause.
ComplianceOverFiles ==
    IF ZoneDatamart \notin datamart_dir
    THEN {<<"empty", {}>>}
    ELSE {<<"metrics", {SummaryArtifact}>>, <<"empty", {}>>}
ConductComplianceAuditOnDirectory ==
    /\ \E outcome \in ComplianceOverFiles :
          /\ stage_returned' = outcome[1]
          /\ stage_written' = outcome[2]
          /\ datamart_dir' = datamart_dir \cup outcome[2]
    /\ stage_call' = "conduct_operational_compliance_audit"
    /\ UNCHANGED <<unified_dir, ghost_dir, zone_manifest, phaseVars, notStage>>
\* execute_spatial_trip_categorization(cbd), for a non-empty cbd
CategorizeOnDirectory ==
    /\ stage_written' = CategorizationWrites
    /\ datamart_dir' = datamart_dir \cup CategorizationWrites
    /\ stage_returned' = "nothing"
    /\ stage_call' = "execute_spatial_trip_categorization"
    /\ UNCHANGED <<unified_dir, ghost_dir, zone_manifest, phaseVars, notStage>>
\* perform_regional_compliance_telemetry
TelemetryOnDirectory ==
    /\ stage_written' = TelemetryWrites(datamart_dir)
    /\ datamart_dir' = datamart_dir \cup TelemetryWrites(datamart_dir)
    /\ stage_returned' = "nothing"
    /\ stage_call' = "perform_regional_compliance_telemetry"
    /\ UNCHANGED <<unified_dir, ghost_dir, zone_manifest, phaseVars, notStage>>

\* The directories a stage can be called on: any canonical and refined
\* partitions, the datamart directory empty or holding the zone datamart.
StageInit ==
    /\ \E u \in SUBSET UnifiedNames, c \in SUBSET CleanNames : unified_dir = u \cup c
    /\ datamart_dir \in SUBSET {ZoneDatamart}
    /\ ghost_dir = {}
    /\ zone_manifest = Absent
    /\ refinery_report = [partitions_processed |-> 0]
    /\ phase3_result = "none"
    /\ audit_outcome = {}
    /\ refinery_written = {}
    /\ phase4_result = "none"
    /\ phase5_result = "none"
    /\ phase5_calls = <<>>
    /\ phase5_cbd = {}
    /\ phase5_read = {}
    /\ phase5_written = {}
    /\ stage_call = "none"
    /\ stage_returned = "nothing"
    /\ stage_written = {}

\* ------------------------------------------------------------------------
\* Specifications: one per component, the other components at rest
\* ------------------------------------------------------------------------
AuditIdle ==
    /\ source_rows = <<>>
    /\ clean_file = Absent
    /\ outlier_file = Absent
    /\ audit_staging_table = <<>>
    /\ audit_results_map = EmptyMap
    /\ audit_pc = "idle"

GeoStagingIdle ==
    /\ cbd_zone_identifiers = {}
    /\ refined_trips = Absent
    /\ spatial_audit_staging = <<>>
    /\ geo_pc = "idle"

GeoIdle == GeoStagingIdle /\ zone_datamart = Absent

ComplianceIdle ==
    /\ compliance_summary = Absent
    /\ audit_metrics = EmptyMap
    /\ compliance_pc = "idle"

StageIdle ==
    /\ stage_call = "none"
    /\ stage_returned = "nothing"
    /\ stage_written = {}

OrchIdle ==
    /\ args_phase = 0
    /\ skip_ingestion = FALSE
    /\ orch_pc = "idle"
    /\ phase_success_matrix = <<>>
    /\ running_phase = 0
    /\ phases_started = <<>>
    /\ all_finalized = Null
    /\ exit_code = Null

ImputeIdle ==
    /\ warehouse = <<>>
    /\ recovery_telemetry = <<>>

AlignIdle ==
    /\ raw_yellow_dir = {}
    /\ raw_green_dir = {}
    /\ alignment_telemetry = <<>>
    /\ align_attempted = {}
    /\ align_failed = {}
    /\ prior_telemetry = <<>>

SyncIdle ==
    /\ source_fragment = <<>>
    /\ source_map = <<>>
    /\ destination_fragment = Absent
    /\ sync_pc = "idle"

FleetIdle ==
    /\ purified_dir = {}
    /\ baseline_stats = <<>>
    /\ horizon_stats = <<>>
    /\ fleet_dynamics = <<>>
    /\ behavioral_matrix = Absent
    /\ fleet_pc = "idle"

\* ------------------------------------------------------------------------
\* data_definitions.py: validate_structural_integrity
\* ------------------------------------------------------------------------
\* the canonical columns the loop does not find among the observed ones
MissingDimensions(observed) == SchemaColumns \ observed
\* columns a file of the warehouse carries beyond the canonical ones
\* (ghost_trip_filter.py writes them into the anomaly trace)
ForeignColumns == {"refinery_status_flag", "lineage_source"}
\* the artifact handed in: unreadable, or a parquet file with some columns
ValidateInit ==
    /\ observed_columns \in
          {Absent} \cup {File(c) : c \in SUBSET (SchemaColumns \cup ForeignColumns)}
    /\ structural_verdict = "none"
\* DESCRIBE raises on a missing or unreadable file: the except clause
ValidateRaises ==
    /\ structural_verdict = "none"
    /\ observed_columns = Absent
    /\ structural_verdict' = "false"
    /\ UNCHANGED <<observed_columns, notValidate>>
\* a required dimension is not among the observed columns
ValidateReportsDefect ==
    /\ structural_verdict = "none"
    /\ observed_columns # Absent
    /\ MissingDimensions(Rows(observed_columns)) # {}
    /\ structural_verdict' = "false"
    /\ UNCHANGED <<observed_columns, notValidate>>
\* the loop ends without a missing dimension
ValidateAccepts ==
    /\ structural_verdict = "none"
    /\ observed_columns # Absent
    /\ MissingDimensions(Rows(observed_columns)) = {}
    /\ structural_verdict' = "true"
    /\ UNCHANGED <<observed_columns, notValidate>>

ValidateIdle ==
    /\ observed_columns = Absent
    /\ structural_verdict = "none"

AuditNext == AuditSucceeds \/ AuditFailsStaging \/ AuditFailsOutlierCopy
InitAudit == AuditInit /\ GeoIdle /\ ComplianceIdle /\ PipeIdle /\ FleetIdle /\ SyncIdle /\ AlignIdle /\ ImputeIdle /\ OrchIdle /\ StageIdle /\ ValidateIdle
SpecAudit == InitAudit /\ [][AuditNext]_vars

InitGeo == GeoInit /\ AuditIdle /\ ComplianceIdle /\ PipeIdle /\ FleetIdle /\ SyncIdle /\ AlignIdle /\ ImputeIdle /\ OrchIdle /\ StageIdle /\ ValidateIdle
SpecGeo == InitGeo /\ [][GeoNext]_vars

InitRepeat ==
    RepeatInit /\ AuditIdle /\ ComplianceIdle /\ PipeIdle /\ FleetIdle /\ SyncIdle
        /\ AlignIdle /\ ImputeIdle /\ OrchIdle /\ StageIdle /\ ValidateIdle
SpecRepeat == InitRepeat /\ [][RepeatNext]_vars

InitPipe == PipeInit /\ AuditIdle /\ GeoIdle /\ ComplianceIdle /\ FleetIdle /\ SyncIdle /\ AlignIdle /\ ImputeIdle /\ OrchIdle /\ StageIdle /\ ValidateIdle
SpecPipe == InitPipe /\ [][PipeNext]_vars

ComplianceNext == ConductOperationalComplianceAudit
InitCompliance == ComplianceInit /\ GeoStagingIdle /\ AuditIdle /\ PipeIdle /\ FleetIdle /\ SyncIdle /\ AlignIdle /\ ImputeIdle /\ OrchIdle /\ StageIdle /\ ValidateIdle
SpecCompliance == InitCompliance /\ [][ComplianceNext]_vars

FleetNext == EvaluateInterFleetDynamics
InitFleet == FleetInit /\ AuditIdle /\ GeoIdle /\ ComplianceIdle /\ PipeIdle /\ SyncIdle /\ AlignIdle /\ ImputeIdle /\ OrchIdle /\ StageIdle /\ ValidateIdle
SpecFleet == InitFleet /\ [][FleetNext]_vars

SyncNext == SynchronizeSucceeds \/ SynchronizeFails
InitSync == SyncInit /\ AuditIdle /\ GeoIdle /\ ComplianceIdle /\ PipeIdle /\ FleetIdle /\ AlignIdle /\ ImputeIdle /\ OrchIdle /\ StageIdle /\ ValidateIdle
SpecSync == InitSync /\ [][SyncNext]_vars

RefineryNext == ExecutePhase3
InitRefinery ==
    RefineryInit /\ AuditIdle /\ GeoIdle /\ ComplianceIdle /\ FleetIdle /\ SyncIdle
        /\ ImputeIdle /\ OrchIdle /\ StageIdle /\ ValidateIdle
SpecRefinery == InitRefinery /\ [][RefineryNext]_vars

ImputeNext == RunComprehensiveDataRecovery
InitImpute ==
    ImputeInit /\ AuditIdle /\ GeoIdle /\ ComplianceIdle /\ PipeIdle /\ FleetIdle
        /\ SyncIdle /\ AlignIdle /\ OrchIdle /\ StageIdle /\ ValidateIdle
SpecImpute == InitImpute /\ [][ImputeNext]_vars

AnchorChoiceNext == RunComprehensiveDataRecovery
InitAnchorChoice ==
    AnchorChoiceInit /\ AuditIdle /\ GeoIdle /\ ComplianceIdle /\ PipeIdle /\ FleetIdle
        /\ SyncIdle /\ AlignIdle /\ OrchIdle /\ StageIdle /\ ValidateIdle
SpecAnchorChoice == InitAnchorChoice /\ [][AnchorChoiceNext]_vars

RecoveryNext ==
    ExecutePhase4 \/ Phase5Categorizes \/ EvaluateInterFleetDynamics
InitRecovery ==
    RecoveryInit /\ AuditIdle /\ GeoIdle /\ ComplianceIdle /\ SyncIdle /\ AlignIdle
        /\ ImputeIdle /\ OrchIdle /\ StageIdle /\ ValidateIdle
SpecRecovery == InitRecovery /\ [][RecoveryNext]_vars

OrchNext ==
    \/ MainDispatch
    \/ TargetedPhaseReturns
    \/ BypassPhase1
    \/ StartPhase
    \/ PhaseReturns
    \/ OrchestrationReturns
InitOrch ==
    OrchInit /\ AuditIdle /\ GeoIdle /\ ComplianceIdle /\ PipeIdle /\ FleetIdle
        /\ SyncIdle /\ AlignIdle /\ ImputeIdle /\ StageIdle /\ ValidateIdle
SpecOrch == InitOrch /\ [][OrchNext]_vars

StageNext ==
    \/ ConductComplianceAuditOnDirectory
    \/ CategorizeOnDirectory
    \/ TelemetryOnDirectory
InitStage ==
    StageInit /\ AuditIdle /\ GeoIdle /\ ComplianceIdle /\ FleetIdle /\ SyncIdle
        /\ AlignIdle /\ ImputeIdle /\ OrchIdle /\ ValidateIdle
SpecStage == InitStage /\ [][StageNext]_vars

ValidateNext == ValidateRaises \/ ValidateReportsDefect \/ ValidateAccepts
InitValidate ==
    ValidateInit /\ AuditIdle /\ GeoIdle /\ ComplianceIdle /\ PipeIdle /\ FleetIdle
        /\ SyncIdle /\ AlignIdle /\ ImputeIdle /\ OrchIdle /\ StageIdle
SpecValidate == InitValidate /\ [][ValidateNext]_vars

AlignNext == OrchestrateFleetSchemaAlignment
InitAlign ==
    AlignInit /\ AuditIdle /\ GeoIdle /\ ComplianceIdle /\ FleetIdle /\ SyncIdle
        /\ ImputeIdle /\ OrchIdle /\ StageIdle /\ ValidateIdle
SpecAlign == InitAlign /\ [][AlignNext]_vars

\* The three stages that write into CONSOLIDATED_DATA_DIR, run in any order
\* any number of times over a warehouse the harvest has just filled: the
\* yellow silo holds any of the two anchor months and the target month, the
\* green silo is empty, and nothing is aligned yet.
ArtifactMonths == {"2023-12", "2024-12", "2025-12"}
ArtifactInit ==
    /\ raw_yellow_dir \in SUBSET {RawName("yellow", m) : m \in ArtifactMonths}
    /\ raw_green_dir = {}
    /\ unified_dir = {}
    /\ alignment_telemetry = <<>>
    /\ align_attempted = {}
    /\ align_failed = {}
    /\ prior_telemetry = <<>>
    /\ PhasesIdle
ArtifactNext == OrchestrateFleetSchemaAlignment \/ ExecutePhase3 \/ ExecutePhase4
InitArtifact ==
    ArtifactInit /\ AuditIdle /\ GeoIdle /\ ComplianceIdle /\ FleetIdle /\ SyncIdle
        /\ ImputeIdle /\ OrchIdle /\ StageIdle /\ ValidateIdle
SpecArtifact == InitArtifact /\ [][ArtifactNext]_vars

\* ========================================================================
\* Claims
\* ========================================================================

\* ---- the anomaly cascade as the specification words it -----------------
\* duration = dropoff_time - pickup_time, in seconds
CascadeDuration(r) == Val(r.dropoff_time) - Val(r.pickup_time)
\* Rule 1, trip_distance / (duration/3600) > SPEED_LIMIT.  The claim lets a
\* record satisfy rules 1 and 4 together, so the quotient is taken wherever
\* it is defined (duration # 0), its sign included.
CascadeVelocityExceeds(r) ==
    /\ r.trip_distance # Null
    /\ \/ /\ CascadeDuration(r) > 0
          /\ Val(r.trip_distance) * 3600 > 65 * 100 * CascadeDuration(r)
       \/ /\ CascadeDuration(r) < 0
          /\ Val(r.trip_distance) * 3600 < 65 * 100 * CascadeDuration(r)
CascadeRule(k, r) ==
    CASE k = 1 -> CascadeVelocityExceeds(r)
      [] k = 2 -> CascadeDuration(r) < 60 /\ r.fare # Null /\ Val(r.fare) > 20
      [] k = 3 -> /\ r.trip_distance # Null /\ Val(r.trip_distance) <= 1
                  /\ r.fare # Null /\ Val(r.fare) > 0
      [] k = 4 -> CascadeDuration(r) <= 0
      [] k = 5 -> \/ (r.fare # Null /\ Val(r.fare) < 0)
                  \/ (r.total_amount # Null /\ Val(r.total_amount) < 0)
      [] OTHER -> TRUE
CascadeLabel(k) ==
    CASE k = 1 -> "STATUS_EXCESSIVE_VELOCITY"
      [] k = 2 -> "STATUS_FINANCIAL_OUTLIER"
      [] k = 3 -> "STATUS_SPATIAL_ANOMALY"
      [] k = 4 -> "STATUS_TEMPORAL_ERROR"
      [] k = 5 -> "STATUS_NEGATIVE_REVENUE"
      [] OTHER -> "STATUS_VERIFIED"
CascadeFirst(r) ==
    CHOOSE k \in 1..6 : CascadeRule(k, r) /\ \A j \in 1..(k - 1) : ~CascadeRule(j, r)

C1_TaggedWith(j, k) ==
    \E i \in 1..Len(audit_staging_table) :
        /\ CascadeRule(j, source_rows[i])
        /\ CascadeRule(k, source_rows[i])
        /\ \A h \in 1..(j - 1) : ~CascadeRule(h, source_rows[i])
        /\ audit_staging_table[i].refinery_status_flag = Some(CascadeLabel(j))
C2_RuleOneUsesStoredVelocity ==
    audit_pc = "done" =>
        \A i \in 1..Len(audit_staging_table) :
            LET s == audit_staging_table[i]
                tagged == s.refinery_status_flag = Some("STATUS_EXCESSIVE_VELOCITY")
            IN  /\ tagged <=> IsTrue(SqlRatioGt(s.calculated_velocity_mph, 65))
                /\ Val(s.delta_t_seconds) <= 0 => ~tagged

\* C3: the purified file and the anomaly trace partition the input: the
\* purified file holds exactly the VERIFIED records, with the eight
\* canonical columns only, the trace holds exactly the others, and the row
\* counts add up.
C3_Copies(file, r) ==
    Cardinality({j \in 1..Len(file) : [c \in SchemaColumns |-> file[j][c]] = r})
C3_Inputs(r, verified) ==
    Cardinality({i \in 1..Len(source_rows) :
        /\ source_rows[i] = r
        /\ (audit_staging_table[i].refinery_status_flag = Some("STATUS_VERIFIED")) = verified})
C3_PurifiedAndTracePartitionInput ==
    audit_pc = "done" =>
        /\ clean_file # Absent /\ outlier_file # Absent
        /\ Len(Rows(clean_file)) + Len(Rows(outlier_file)) = Len(source_rows)
        /\ \A j \in 1..Len(Rows(clean_file)) :
              DOMAIN Rows(clean_file)[j] =
                  {"pickup_time", "dropoff_time", "pickup_loc", "dropoff_loc",
                   "trip_distance", "fare", "total_amount", "congestion_surcharge"}
        /\ \A j \in 1..Len(Rows(outlier_file)) :
              Rows(outlier_file)[j].refinery_status_flag # Some("STATUS_VERIFIED")
        /\ \A i \in 1..Len(source_rows) :
              /\ C3_Copies(Rows(clean_file), source_rows[i]) = C3_Inputs(source_rows[i], TRUE)
              /\ C3_Copies(Rows(outlier_file), source_rows[i]) = C3_Inputs(source_rows[i], FALSE)
C3_Witness ==
    /\ audit_pc = "done"
    /\ Len(Rows(clean_file)) >= 1
    /\ Len(Rows(outlier_file)) >= 1

\* C4: for every trip and every non-empty zone set the categorization
\* assigns exactly one category: inside iff both endpoints are in the set,
\* entering iff only the dropoff is, exiting iff only the pickup is, outside
\* iff neither is.
C4_Category(pickup, dropoff, zones) ==
    IF pickup \in zones /\ dropoff \in zones THEN "inside_zone"
    ELSE IF pickup \notin zones /\ dropoff \in zones THEN "entering_zone"
    ELSE IF pickup \in zones /\ dropoff \notin zones THEN "exiting_zone"
    ELSE "outside_zone"
C4_ExactlyOneZoneCategory ==
    geo_pc = "done" =>
        /\ cbd_zone_identifiers # {}
        /\ Len(spatial_audit_staging) = Len(Rows(refined_trips))
        /\ \A i \in 1..Len(Rows(refined_trips)) :
              spatial_audit_staging[i].zone_category =
                  Some(C4_Category(Val(Rows(refined_trips)[i].pickup_loc),
                                   Val(Rows(refined_trips)[i].dropoff_loc),
                                   cbd_zone_identifiers))
\* the four trips of the example, under the zone set {1, 2, 3}
C4_Tagged(pickup, dropoff, category) ==
    \E i \in 1..Len(spatial_audit_staging) :
        /\ spatial_audit_staging[i].pickup_loc = Some(pickup)
        /\ spatial_audit_staging[i].dropoff_loc = Some(dropoff)
        /\ spatial_audit_staging[i].zone_category = Some(category)
C4_Witness ==
    /\ geo_pc = "done"
    /\ cbd_zone_identifiers = {1, 2, 3}
    /\ C4_Tagged(5, 2, "entering_zone")
    /\ C4_Tagged(2, 5, "exiting_zone")

\* C5: the geospatial classifier consumes the verified partitions the
\* anomaly classifier produces: when phase 5 categorizes (non-empty zone
\* set), every purified file in the directory is among the partitions it
\* reads, and if there is at least one the Daily Category Aggregate is
\* written.
C5_PurifiedFiles == {q \in unified_dir : NameHas(q, "purified")}
C5_GeoConsumesVerifiedPartitions ==
    [][Phase5Categorizes =>
        /\ C5_PurifiedFiles \subseteq phase5_read'
        /\ C5_PurifiedFiles # {} => ZoneDatamart \in datamart_dir']_vars

\* C6: when the zone-set derivation yields an empty set (no matching zone,
\* or the derivation raised) phase 5 returns failure, runs neither the
\* categorization nor the telemetry and writes nothing.
C6_DerivationRan ==
    \E i \in 1..Len(phase5_calls) : phase5_calls[i] = "isolate_manhattan_cbd_centroids"
C6_Called(f) == \E i \in 1..Len(phase5_calls) : phase5_calls[i] = f
C6_EmptyZoneSetIsHardFailure ==
    (C6_DerivationRan /\ phase5_cbd = {}) =>
        /\ phase5_result = "false"
        /\ ~C6_Called("execute_spatial_trip_categorization")
        /\ ~C6_Called("perform_regional_compliance_telemetry")
        /\ phase5_written = {}
\* an empty derivation (zones present, none in the policy area) with a
\* refined partition waiting and no aggregate written
C6_Witness ==
    /\ C6_DerivationRan
    /\ phase5_cbd = {}
    /\ zone_manifest # Absent
    /\ Rows(zone_manifest).has_borough
    /\ Rows(zone_manifest).polygons # {}
    /\ RefinedPartitions # {}
    /\ ZoneDatamart \notin datamart_dir

\* ---- the Compliance Summary as the specification words it --------------
\* the restricted rows: post_policy and category entering_zone or exiting_zone
ComplianceRestricted(rows) ==
    {r \in rows : /\ r.after_congestion_start = Some(1)
                  /\ r.zone_category \in {Some("entering_zone"), Some("exiting_zone")}}
RECURSIVE ComplianceVolume(_, _)
ComplianceVolume(rows, col) ==
    IF rows = {} THEN 0
    ELSE LET r == CHOOSE x \in rows : TRUE
         IN  r[col] + ComplianceVolume(rows \ {r}, col)
\* p, in hundredths of a percent, is leak / total x 100 rounded to two decimals
IsRoundedPercent(p, leak, total) ==
    /\ 2 * (p * total - 100 * 100 * leak) <= total
    /\ 2 * (100 * 100 * leak - p * total) <= total

\* C7: the summary's leakage% is leakage volume / total volume x 100
\* rounded to two decimals, the volumes summed over the restricted rows;
\* for total = 100 and compliant = 80 it is 20.00.
C7_LeakagePercent ==
    compliance_pc = "done" =>
        LET row == Rows(compliance_summary)[1]
            liable == ComplianceRestricted(Rows(zone_datamart))
        IN  /\ IsRoundedPercent(Val(row.leakage_percent),
                                ComplianceVolume(liable, "trips_without_surcharge"),
                                ComplianceVolume(liable, "trip_count"))
            /\ (row.gross_volume = Some(100) /\ row.verified_volume = Some(80))
                  => row.leakage_percent = Some(2000)

\* C8: with a restricted total volume of 0 the audit completes without
\* error, reports leakage% = 0 and persists a single-row summary.
C8_ZeroVolumeReportsZero ==
    (/\ compliance_pc \in {"done", "failed", "blocked"}
     /\ zone_datamart # Absent
     /\ ComplianceRestricted(Rows(zone_datamart)) = {}) =>
        /\ compliance_pc = "done"
        /\ compliance_summary # Absent
        /\ Len(Rows(compliance_summary)) = 1
        /\ Rows(compliance_summary)[1].leakage_percent = Some(0)

\* C9: every figure of the summary is computed from the restricted rows
\* only: adding or removing an inside_zone, outside_zone or pre-policy row
\* never changes what the audit returns and persists.
C9_UnrestrictedRows ==
    {AggregateRow(c, f, g) : c \in ZoneCategories, f \in {0, 1},
                             g \in TripGroups \cup {OtherGroup}}
        \ ComplianceRestricted(
            {AggregateRow(c, f, g) : c \in ZoneCategories, f \in {0, 1},
                                     g \in TripGroups \cup {OtherGroup}})
C9_OnlyRestrictedRowsCount ==
    compliance_pc \in {"done", "failed"} =>
        \A r \in C9_UnrestrictedRows :
            /\ ComplianceOutcome(File(Rows(zone_datamart) \cup {r}), Absent)
                  = <<compliance_pc, audit_metrics, compliance_summary>>
            /\ ComplianceOutcome(File(Rows(zone_datamart) \ {r}), Absent)
                  = <<compliance_pc, audit_metrics, compliance_summary>>
\* a summary persisted from an aggregate that also holds an inside_zone row
\* and a pre-policy entering row
C9_Witness ==
    /\ compliance_pc = "done"
    /\ compliance_summary # Absent
    /\ \E r \in Rows(zone_datamart) : r.zone_category = Some("inside_zone")
    /\ \E r \in Rows(zone_datamart) :
          r.zone_category = Some("entering_zone") /\ r.after_congestion_start = Some(0)

\* ---- the fleet comparison as the specification words it ---------------
\* a fleet has records in a window when some purified partition of that
\* fleet and window holds at least one record
C10_HasRecords(fleet, months) ==
    \E f \in purified_dir :
        /\ NameHas(f.name, fleet)
        /\ MatchesWindow(f.name, months)
        /\ Len(f.rows) > 0
C10_Label(fleet) == IF fleet = "yellow" THEN "MEDALLION_YELLOW" ELSE "MEDALLION_GREEN"
C10_Reported == IF fleet_dynamics = <<>> THEN <<>> ELSE fleet_dynamics[1]
C10_RowsOf(fleet) ==
    Cardinality({i \in 1..Len(C10_Reported) : C10_Reported[i].fleet = C10_Label(fleet)})

\* C10: once the comparison has run, a fleet with records in both the
\* baseline and the comparison window has exactly one output row, and a
\* fleet missing from either window has none.
C10_FleetReportedIffInBothWindows ==
    fleet_pc \in {"done", "failed"} =>
        \A fleet \in Fleets :
            C10_RowsOf(fleet) =
                IF /\ C10_HasRecords(fleet, BaselineMonths)
                   /\ C10_HasRecords(fleet, HorizonMonths)
                THEN 1 ELSE 0

\* ---- the canonical partition as the specification words it ------------
\* the source column a map gives for a canonical column: none (the empty
\* set), or the first one listed when the map lists several
C11_Sources(target) ==
    {source_map[i][1] :
        i \in {k \in 1..Len(source_map) :
                  /\ source_map[k][2] = target
                  /\ \A j \in 1..(k - 1) : source_map[j][2] # target}}
\* a source row has the canonical field non-null
C11_HasField(row, target) ==
    \E c \in C11_Sources(target) : row[c] # Null
C11_Kept ==
    SelectSeq(source_fragment,
              LAMBDA row : \A t \in {"pickup_time", "dropoff_time", "pickup_loc", "dropoff_loc"} :
                              C11_HasField(row, t))
C11_Canonical ==
    {"pickup_time", "dropoff_time", "pickup_loc", "dropoff_loc",
     "trip_distance", "fare", "total_amount", "congestion_surcharge"}

\* C11: a canonical partition that was written has exactly the eight
\* canonical columns, a column the map lacks being null on every row, and
\* holds one row for each source row whose four core fields are non-null,
\* and no other.
C11_CanonicalPartitionShape ==
    destination_fragment # Absent =>
        /\ Len(construct_structural_mapping_query(source_map)) = 8
        /\ {construct_structural_mapping_query(source_map)[i].target : i \in 1..8}
              = C11_Canonical
        /\ Len(Rows(destination_fragment)) = Len(C11_Kept)
        /\ \A i \in 1..Len(C11_Kept) :
              LET out == Rows(destination_fragment)[i]
              IN  /\ DOMAIN out = C11_Canonical
                  /\ \A t \in C11_Canonical :
                        IF C11_Sources(t) = {} THEN out[t] = Null
                        ELSE \E c \in C11_Sources(t) : out[t] = C11_Kept[i][c]
                  /\ \A t \in {"pickup_time", "dropoff_time", "pickup_loc", "dropoff_loc"} :
                        out[t] # Null
\* a written partition that kept one row and dropped another, under a map
\* that lacks the surcharge column
C11_Witness ==
    /\ sync_pc = "done"
    /\ Len(source_map) = 7
    /\ Len(source_fragment) = 2
    /\ Len(Rows(destination_fragment)) = 1
    /\ Rows(destination_fragment)[1].congestion_surcharge = Null
    /\ Rows(destination_fragment)[1].fare = Null

C12_AllSkipped ==
    [yellow_aligned |-> 0,
     yellow_skipped |-> Cardinality(raw_yellow_dir),
     green_aligned |-> 0,
     green_skipped |-> Cardinality(raw_green_dir),
     critical_failures |-> 0]
\* C12: a run of orchestrate_fleet_schema_alignment that follows a run
\* without failures, over the same raw partitions, writes no file: every
\* raw partition is counted as skipped, none as aligned or failed, and the
\* canonical directory is left as it was.
C12_RerunAfterSuccessWritesNothing ==
    [][(/\ alignment_telemetry # <<>>
        /\ alignment_telemetry[1].critical_failures = 0)
       => /\ unified_dir' = unified_dir
          /\ align_attempted' = {}
          /\ alignment_telemetry' = <<C12_AllSkipped>>]_vars
C12_Witness ==
    /\ prior_telemetry # <<>>
    /\ prior_telemetry[1].critical_failures = 0
    /\ prior_telemetry[1].yellow_aligned = 2
    /\ prior_telemetry[1].green_aligned = 1
    /\ alignment_telemetry = <<C12_AllSkipped>>
    /\ align_attempted = {}

C14_Tallies ==
    {<<AlignmentTelemetry(attempted, (yellow \cup green) \ attempted, failed),
       OfFleet(failed, "yellow"), OfFleet(failed, "green")>> :
        <<yellow, green, attempted, failed>> \in
            {q \in (SUBSET {<<"yellow", n>> : n \in RawNames("yellow")})
                   \X (SUBSET {<<"green", n>> : n \in RawNames("green")})
                   \X (SUBSET ({<<"yellow", n>> : n \in RawNames("yellow")}
                               \cup {<<"green", n>> : n \in RawNames("green")}))
                   \X (SUBSET ({<<"yellow", n>> : n \in RawNames("yellow")}
                               \cup {<<"green", n>> : n \in RawNames("green")})) :
                /\ q[3] \subseteq q[1] \cup q[2]
                /\ q[4] \subseteq q[3]}}
C14_Isolated ==
    /\ \A x \in RawPartitions : x \in align_attempted \/ TargetFile(x) \in unified_dir
    /\ \A x \in align_attempted \ align_failed : TargetFile(x) \in unified_dir
C14_Accounted ==
    LET t == alignment_telemetry[1]
    IN t.yellow_aligned + t.yellow_skipped + t.green_aligned + t.green_skipped
           + t.critical_failures = Cardinality(RawPartitions)
C14_FailedPerFleet ==
    \A r \in C14_Tallies :
        r[1] = alignment_telemetry[1]
            => /\ r[2] = OfFleet(align_failed, "yellow")
               /\ r[3] = OfFleet(align_failed, "green")
\* C14: in orchestrate_fleet_schema_alignment a failing partition does not
\* stop the others (every raw partition without a canonical file is
\* synchronized, and the ones that succeed are written), the tallies add
\* up to the number of raw partitions, and the returned tallies give the
\* aligned, skipped and failed counts of each source fleet.
C14_FailureIsolatedAndTalliedPerFleet ==
    alignment_telemetry # <<>> => C14_Isolated /\ C14_Accounted /\ C14_FailedPerFleet

C13_EndsAsBefore ==
    \A p \in audit_outcome', q \in audit_outcome : p[1] = q[1] => p[2] = q[2]
C13_Shielded(name) ==
    NameHas(name, "purified") \/ NameHas(name, "virtual") \/ NameHas(name, "clean")
\* C13: a run of process_refinery_batch that follows an earlier run, over a
\* directory nothing else has touched and whose partitions audit as they did
\* before, writes no purified file and no trace file and creates none; and
\* in no run, however many came before, is a purified or synthetic file of
\* the scanned directory audited or written over.
C13_RerunLeavesRefinedFilesAlone ==
    [][/\ \A p \in audit_outcome' : ~C13_Shielded(p[1])
       /\ \A f \in unified_dir : C13_Shielded(f) => f \notin refinery_written'
       /\ (phase3_result # "none" /\ C13_EndsAsBefore)
              => /\ refinery_written' = {}
                 /\ unified_dir' = unified_dir
                 /\ ghost_dir' = ghost_dir]_vars
C13_Witness ==
    /\ PurifiedPath(UnifiedName("green", "2025-01")) \in unified_dir
    /\ OutlierTracePath(UnifiedName("green", "2025-01")) \in ghost_dir
    /\ VirtualName("yellow") \in unified_dir
    /\ audit_outcome = {<<UnifiedName("yellow", "2025-01"), "read_failed">>}
    /\ refinery_written = {}

C15_Fleet(fleet) ==
    [anchors |-> /\ GlobFleetMonth(warehouse, fleet, "2023-12") # {}
                 /\ GlobFleetMonth(warehouse, fleet, "2024-12") # {},
     recovered |-> IF fleet = "yellow" THEN recovery_telemetry[1].yellow_recovered
                   ELSE recovery_telemetry[1].green_recovered,
     partition |-> warehouse[VirtualName(fleet)]]
\* C15: after a recovery that found the gap, each fleet is recovered exactly
\* when both of its anchor partitions exist, whatever the other fleet's
\* anchors are, and a fleet that is not recovered has no synthetic partition.
C15_RecoveredIffAnchorsExist ==
    (recovery_telemetry # <<>> /\ recovery_telemetry[1].horizon_gap_detected)
        => \A fleet \in Fleets :
              /\ C15_Fleet(fleet).recovered <=> C15_Fleet(fleet).anchors
              /\ ~C15_Fleet(fleet).recovered => C15_Fleet(fleet).partition = Absent

C16_Older == Rows(warehouse[UnifiedName("yellow", "2023-12")])
C16_Recent == Rows(warehouse[UnifiedName("yellow", "2024-12")])
C16_Synthetic == Rows(warehouse[VirtualName("yellow")])
C16_OnDay(rows, day) == {i \in 1..Len(rows) : rows[i].pickup_time = day}
C16_Known(rows, day, col) == {i \in C16_OnDay(rows, day) : rows[i][col] # Null}
RECURSIVE C16_Total(_, _, _)
C16_Total(rows, idx, col) ==
    IF idx = {} THEN 0
    ELSE LET i == CHOOSE j \in idx : TRUE
         IN  Val(rows[i][col]) + C16_Total(rows, idx \ {i}, col)
\* estimate = 0.3 * (older total / older count) + 0.7 * (recent total / recent count)
C16_IsWeighted(estimate, olderTotal, olderCount, recentTotal, recentCount) ==
    IF olderCount = 0 \/ recentCount = 0 THEN estimate = Null
    ELSE /\ estimate # Null
         /\ Val(estimate).num * 10 * olderCount * recentCount
                = Val(estimate).den * (3 * olderTotal * recentCount
                                         + 7 * recentTotal * olderCount)
C16_MeanIsWeighted(row, estimated, col) ==
    LET o == C16_Known(C16_Older, row.calendar_day, col)
        r == C16_Known(C16_Recent, row.calendar_day, col)
    IN  C16_IsWeighted(row[estimated], C16_Total(C16_Older, o, col), Cardinality(o),
                       C16_Total(C16_Recent, r, col), Cardinality(r))
C16_SurchargeIsWeighted(row) ==
    LET o == C16_OnDay(C16_Older, row.calendar_day)
        r == C16_OnDay(C16_Recent, row.calendar_day)
    IN  C16_IsWeighted(row.estimated_surcharge,
            C16_Total(C16_Older, C16_Known(C16_Older, row.calendar_day, "congestion_surcharge"),
                      "congestion_surcharge"),
            Cardinality(o),
            C16_Total(C16_Recent, C16_Known(C16_Recent, row.calendar_day, "congestion_surcharge"),
                      "congestion_surcharge"),
            Cardinality(r))
C16_Occurrences(rows, day, col, zone) ==
    Cardinality({i \in C16_OnDay(rows, day) : rows[i][col] = zone})
C16_IsModal(rows, day, col, zone) ==
    /\ C16_Occurrences(rows, day, col, zone) > 0
    /\ \A i \in C16_OnDay(rows, day) :
          C16_Occurrences(rows, day, col, rows[i][col])
              <= C16_Occurrences(rows, day, col, zone)
C16_WeightedVolume(row) ==
    3 * Cardinality(C16_OnDay(C16_Older, row.calendar_day))
        + 7 * Cardinality(C16_OnDay(C16_Recent, row.calendar_day))
C16_Distance(a, b) == IF a >= b THEN a - b ELSE b - a
C16_RowsAndMeans ==
    /\ \A day \in 1..31 :
          Cardinality({row \in C16_Synthetic : row.calendar_day = day})
              = (IF C16_OnDay(C16_Older, day) # {} /\ C16_OnDay(C16_Recent, day) # {}
                 THEN 1 ELSE 0)
    /\ \A row \in C16_Synthetic :
          /\ C16_MeanIsWeighted(row, "estimated_fare", "fare")
          /\ C16_MeanIsWeighted(row, "estimated_gross", "total_amount")
          /\ C16_MeanIsWeighted(row, "estimated_distance", "trip_distance")
          /\ C16_SurchargeIsWeighted(row)
          /\ C16_IsModal(C16_Recent, row.calendar_day, "pickup_loc", row.primary_origin)
          /\ C16_IsModal(C16_Recent, row.calendar_day, "dropoff_loc",
                         row.primary_destination)
    /\ EstimatedVolume(100, 200) = 170
\* C16 as stated: a synthetic partition has one row for each day of the month
\* found in both anchors and none for any other day; on each row every
\* numeric metric, the volume included, is exactly 0.3 x the older anchor's
\* value + 0.7 x the recent anchor's, the modal zones are modal zones of the
\* recent anchor, and volumes 100 and 200 give 170.
C16_EveryMetricIsTheWeightedSum ==
    warehouse[VirtualName("yellow")] # Absent
        => /\ C16_RowsAndMeans
           /\ \A row \in C16_Synthetic :
                 10 * row.estimated_volume = C16_WeightedVolume(row)
\* C16 amended: the same, except that the estimated volume is the weighted
\* sum of the two volumes rounded to the nearest integer.
C16_MeansWeightedVolumeRounded ==
    warehouse[VirtualName("yellow")] # Absent
        => /\ C16_RowsAndMeans
           /\ \A row \in C16_Synthetic :
                 C16_Distance(10 * row.estimated_volume, C16_WeightedVolume(row)) <= 5
C16_Witness ==
    /\ warehouse[VirtualName("yellow")] # Absent
    /\ \E row \in C16_Synthetic :
          /\ row.calendar_day = 1
          /\ Cardinality(C16_OnDay(C16_Older, 1)) = 1
          /\ Cardinality(C16_OnDay(C16_Recent, 1)) = 2
          /\ row.estimated_volume = 2
          /\ row.estimated_fare # Null
    /\ C16_OnDay(C16_Older, 2) # {}
    /\ C16_OnDay(C16_Recent, 2) = {}

\* C17: every synthetic partition has the eight canonical columns and, on
\* every row, the two weights used and the generator tag.
C17_SyntheticHasCanonicalSchemaAndProvenance ==
    \A fleet \in Fleets :
        warehouse[VirtualName(fleet)] # Absent
            => \A row \in Rows(warehouse[VirtualName(fleet)]) :
                  /\ SchemaColumns \subseteq DOMAIN row
                  /\ row.cycle_w = HISTORICAL_CYCLE_WEIGHT
                  /\ row.trend_w = RECENCY_TREND_WEIGHT
                  /\ row.record_ancestry = "SYNTHETIC_SI_MODEL"

C18_Injected(fleet) == phase4_result = "true" /\ VirtualName(fleet) \in unified_dir
C18_CategorizationRuns == phase5_result = "none" /\ phase5_result' = "true"
C18_FleetAnalyticsRuns == fleet_pc = "ready" /\ fleet_pc' # "ready"
C18_FleetAnalyticsInputs ==
    {f.name : f \in WindowFiles(purified_dir, BaselineMonths \cup HorizonMonths)}
\* C18: once the imputation has written a fleet's synthetic partition, a
\* geospatial categorization that runs has it among the partitions it reads,
\* and a fleet analytics run has it among its input files.
C18_SyntheticPartitionIsConsumed ==
    [][\A fleet \in Fleets :
          C18_Injected(fleet)
              => /\ C18_CategorizationRuns => VirtualName(fleet) \in phase5_read'
                 /\ C18_FleetAnalyticsRuns
                        => VirtualName(fleet) \in C18_FleetAnalyticsInputs]_vars

C19_Passed(position) ==
    /\ position <= Len(phase_success_matrix)
    /\ phase_success_matrix[position]
\* C19: the orchestration calls the phases in the order 1, 2, 3, 4, 5, 6/7,
\* 8, 9, 10 (from 2 when phase 1 is bypassed), a phase is called only when
\* every phase before it is recorded as successful, so none is called after
\* a failed one, and the orchestration returns True exactly when all the
\* phases were reached and each is recorded as successful.
C19_PhasesInOrderAndGated ==
    /\ \A i \in 1..Len(phases_started) :
          /\ phases_started[i] = (IF skip_ingestion THEN i + 1 ELSE i)
          /\ \A earlier \in 1..(phases_started[i] - 1) : C19_Passed(earlier)
    /\ all_finalized # Null
          => (Val(all_finalized) <=> \A position \in 1..9 : C19_Passed(position))
C19_Witness ==
    /\ skip_ingestion
    /\ phases_started = <<2, 3, 4, 5>>
    /\ phase_success_matrix = <<TRUE, TRUE, TRUE, TRUE, FALSE>>
    /\ all_finalized = Some(FALSE)

C20_Calls(stage) == stage_call' = stage /\ vars' # vars
C20_NothingWritten == stage_written' = {} /\ datamart_dir' = datamart_dir
\* C20: a stage called before its upstream artifact exists writes nothing:
\* the compliance audit without the zone datamart returns the empty result
\* and writes no summary, the categorization without a refined partition
\* writes no datamart, and the regional telemetry without a refined
\* partition or without the zone datamart writes no telemetry artifact.
C20_MissingPrerequisiteWritesNothing ==
    [][/\ (C20_Calls("conduct_operational_compliance_audit")
             /\ ZoneDatamart \notin datamart_dir)
          => C20_NothingWritten /\ stage_returned' = "empty"
       /\ (C20_Calls("execute_spatial_trip_categorization") /\ RefinedPartitions = {})
          => C20_NothingWritten
       /\ (C20_Calls("perform_regional_compliance_telemetry")
             /\ (RefinedPartitions = {} \/ ZoneDatamart \notin datamart_dir))
          => C20_NothingWritten]_vars
C20_Witness ==
    /\ stage_call = "perform_regional_compliance_telemetry"
    /\ RefinedPartitions # {}
    /\ datamart_dir = {}
    /\ stage_written = {}

C21_CanonicalPaths == {TargetFile(x) : x \in RawPartitions}
C21_SyntheticPaths == {VirtualName(f) : f \in Fleets}
C21_AlignmentWrites == {TargetFile(x) : x \in align_attempted' \ align_failed'}
C21_RefineryWrites ==
    {PurifiedPath(p[1]) : p \in {q \in audit_outcome' : WritesPurified(q[2])}}
C21_ImputationWrites ==
    IF DecemberPresent THEN {}
    ELSE {VirtualName(f) : f \in {g \in Fleets : AnchorsPresent(g)}}
\* C21: over any sequence of runs of the schema alignment, the refinery
\* batch and the imputation, no run removes a file of the canonical
\* directory; the alignment writes only canonical paths that did not exist,
\* the refinery only paths that did not exist and that are neither canonical
\* nor synthetic, and the imputation only synthetic paths, which are neither
\* canonical nor written by the refinery: each path has one writing stage.
C21_EachPathHasOneWriter ==
    [][/\ unified_dir \subseteq unified_dir'
       /\ OrchestrateFleetSchemaAlignment
             => /\ C21_AlignmentWrites \subseteq C21_CanonicalPaths
                /\ C21_AlignmentWrites \cap unified_dir = {}
       /\ ExecutePhase3
             => /\ C21_RefineryWrites \cap unified_dir = {}
                /\ C21_RefineryWrites \cap (C21_CanonicalPaths \cup C21_SyntheticPaths) = {}
                /\ \A n \in C21_RefineryWrites : NameHas(n, "purified")
       /\ ExecutePhase4
             => /\ C21_ImputationWrites \subseteq C21_SyntheticPaths
                /\ C21_ImputationWrites \cap C21_CanonicalPaths = {}
                /\ \A n \in C21_ImputationWrites : ~NameHas(n, "purified")]_vars
C21_Witness ==
    /\ UnifiedName("yellow", "2025-12") \in unified_dir
    /\ PurifiedPath(UnifiedName("yellow", "2023-12")) \in unified_dir
    /\ VirtualName("yellow") \in unified_dir
    /\ phase3_result = "false"
    /\ audit_outcome # {}
    /\ phase4_result = "true"

C22_Key(row) == <<row.trip_date, row.zone_category, row.after_congestion_start>>
C22_OneRowPerKey ==
    \A a \in Rows(zone_datamart), b \in Rows(zone_datamart) :
        C22_Key(a) = C22_Key(b) => a = b
\* the row a trip is counted in: its day, and the flag of its instant
C22_RowOf(trip, row) ==
    /\ Val(row.trip_date) % SecondsPerDay = 0
    /\ Val(row.trip_date) <= Val(trip.pickup_time)
    /\ Val(trip.pickup_time) < Val(row.trip_date) + SecondsPerDay
    /\ row.after_congestion_start =
          Some(IF Val(trip.pickup_time) >= POLICY_EFFECTIVE_DATE THEN 1 ELSE 0)
C22_Aggregate ==
    /\ C22_OneRowPerKey
    /\ \A i \in 1..Len(Rows(refined_trips)) :
          \E row \in Rows(zone_datamart) : C22_RowOf(Rows(refined_trips)[i], row)
    /\ \A row \in Rows(zone_datamart) :
          \E i \in 1..Len(Rows(refined_trips)) : C22_RowOf(Rows(refined_trips)[i], row)
    /\ SumRows(Rows(zone_datamart), "trip_count") = Len(Rows(refined_trips))
\* C22: the datamart execute_spatial_trip_categorization writes has one row
\* per (day, zone_category, after_congestion_start), the flag of a row being
\* 1 exactly for the trips picked up at or after the policy effective date,
\* and its trip counts add up to the number of trips read; a second call
\* over the same inputs writes the same datamart.
C22_OneRowPerKeyAndRepeatable ==
    /\ [](geo_pc = "done" => zone_datamart # Absent /\ C22_Aggregate)
    /\ [][(zone_datamart # Absent /\ geo_pc' = "done")
             => zone_datamart' = zone_datamart]_vars
C22_Witness ==
    /\ geo_pc = "done"
    /\ spatial_audit_staging # <<>>
    /\ Len(Rows(refined_trips)) = 2
    /\ Cardinality(Rows(zone_datamart)) = 1
    /\ \E row \in Rows(zone_datamart) :
          /\ row.trip_count = 2
          /\ row.after_congestion_start = Some(1)
          /\ row.trip_date = Some(POLICY_EFFECTIVE_DATE)
    /\ Val(Rows(refined_trips)[1].pickup_time) = POLICY_EFFECTIVE_DATE
    /\ Val(Rows(refined_trips)[2].pickup_time) = POLICY_EFFECTIVE_DATE + 1

\* C23: validate_structural_integrity returns True exactly for an artifact
\* whose set of columns is the canonical schema: one that lacks a canonical
\* column is rejected, and so is one that carries a column outside it.
C23_AcceptsIffColumnsAreTheSchema ==
    structural_verdict # "none"
        => (structural_verdict = "true" <=> observed_columns = File(SchemaColumns))

\* the audits of the batch before that did not run to completion
C24_Interrupted == {p \in audit_outcome : ~(WritesPurified(p[2]) /\ WritesTrace(p[2]))}
\* C24: a destination path exists only for a partition written to
\* completion, so the next run takes up again every partition whose write
\* did not complete: the refinery batch audits again each partition whose
\* audit was interrupted, and the alignment synchronizes again each
\* partition whose synchronization failed.
C24_InterruptedPartitionIsProcessedAgain ==
    [][/\ ExecutePhase3
             => \A p \in C24_Interrupted : \E q \in audit_outcome' : q[1] = p[1]
       /\ OrchestrateFleetSchemaAlignment
             => align_failed \subseteq align_attempted']_vars

\* C25: the synthetic yellow partition the recovery writes is synthesized
\* from the canonical (unified) partitions of the two anchor months, whether
\* or not the purified partition of an anchor month lies in the directory.
C25_AnchorsAreTheCanonicalPartitions ==
    (recovery_telemetry # <<>> /\ warehouse[VirtualName("yellow")] # Absent)
        => Rows(warehouse[VirtualName("yellow")]) \in
               SynthesizedTables(Rows(warehouse[UnifiedName("yellow", "2023-12")]),
                                 Rows(warehouse[UnifiedName("yellow", "2024-12")]))

\* C26: in every row of the datamart the categorization writes, the trips
\* with a surcharge and the trips without one add up to the trip count,
\* whatever the surcharge of a trip is: positive, zero, NULL or negative.
C26_CompliantPlusLeakageIsTripCount ==
    geo_pc = "done"
        => \A row \in Rows(zone_datamart) :
               row.trips_with_surcharge + row.trips_without_surcharge = row.trip_count

C27_EveryPartitionPurified ==
    /\ \E n \in unified_dir : NameHas(n, "unified")
    /\ \A n \in unified_dir : NameHas(n, "unified") => PurifiedPath(n) \in unified_dir
\* C27: when phase 3 has succeeded and every canonical partition of the
\* directory has its purified file, executing phase 3 again succeeds again,
\* so that a second run of the pipeline goes on to the phases after it.
C27_SecondRunPassesPhase3 ==
    [][(C27_EveryPartitionPurified /\ phase3_result = "true")
          => phase3_result' = "true"]_vars

\* C28: after any sequence of refinery batches, audits that fail part-way
\* included, every canonical partition whose purified file exists also has
\* its anomaly-trace file.
C28_PurifiedFileHasItsTrace ==
    \A n \in unified_dir :
        (NameHas(n, "unified") /\ PurifiedPath(n) \in unified_dir)
            => OutlierTracePath(n) \in ghost_dir

\* C29: run_comprehensive_data_recovery writes no synthetic December 2025
\* partition for a fleet whose observed December 2025 partition exists.
C29_NoSyntheticPartitionBesideObserved ==
    recovery_telemetry # <<>>
        => \A f \in Fleets :
               warehouse[UnifiedName(f, "2025-12")] # Absent
                   => warehouse[VirtualName(f)] = Absent

\* C30: phase 4 has returned True only if December 2025 is present for both
\* fleets or the synthetic partition of each fleet was written, and phase 5
\* has returned True only if that execution wrote the zone datamart and the
\* regional telemetry artifact.
C30_PhaseSuccessMeansArtifactsExist ==
    /\ phase4_result = "true"
          => (DecemberPresent \/ \A f \in Fleets : VirtualName(f) \in unified_dir)
    /\ phase5_result = "true"
          => {ZoneDatamart, TelemetryArtifact} \subseteq phase5_written
====
